---- MODULE Spec2Model ----
(***************************************************************************)
(* Verification model of the AIToolbox training-loop toolkit:              *)
(*   - the callback handlers (aitoolbox BasicCallbacksHandler and          *)
(*     CallbacksHandler, and the older AIToolbox CallbacksHandler),        *)
(*   - the performance evaluation / print report / early stopping          *)
(*     callbacks of AIToolbox/torchtrain/callbacks/callbacks.py,           *)
(*   - the S3 and Google Cloud Storage file adapters,                      *)
(*   - the dataset folder check and the S3 model savers,                   *)
(*   - the training history plotter and writer,                            *)
(*   - the model checkpoint callback.                                      *)
(* Each part has its own specification over the shared variables; the      *)
(* variables of the other parts stay at their initial values.              *)
(***************************************************************************)
EXTENDS Integers, Sequences, FiniteSets, TLC

VARIABLES
    callbacks,      \* handler -> train_loop_obj.callbacks of that handler's train loop
    cbs_on,         \* hook name -> per-stage list of the stage-filtering CallbacksHandler
    registered,     \* log: callbacks of every register_callbacks call that returned, in call order
    calls,          \* log of the last execute_<stage>: the hooks invoked, in order
    exec,           \* the last execute_<stage>: handler, stage, whether a hook raised
    pc,             \* TrainLoop: "new", "fit", "done", or "interrupted" by an exception
    epoch,          \* TrainLoop: number of epochs finished
    train_history,  \* TrainLoop.train_history: metric name -> list of values
    early_stop,     \* TrainLoop.early_stop
    es,             \* EarlyStoppingCallback: patience_count, best_performance, best_epoch
    result_package, \* ModelPerformanceEvaluationCallback: results of its two result packages
    eval_count,     \* log: number of evaluate_model_performance runs
    last_report,    \* log: the print_performance_report of the last execute_<stage>
    local_fs,       \* local disk: path -> what is there (nothing, a file and its content, a folder)
    s3_bucket,      \* the S3 bucket: cloud path -> content of the object, or "absent"
    gcs_bucket,     \* the Google Cloud Storage bucket: cloud path -> content, or "absent"
    last_op,        \* log: the last adapter call, what the SDK did and how the call ended
    training_history,     \* aitoolbox TrainingHistory, flattened: (metric name, results) in dict order
    metric_name_cols,     \* TrainingHistoryWriter.metric_name_cols
    run_timestamp,        \* TrainLoop.experiment_timestamp
    checkpoints           \* log: the save_model calls of ModelCheckpointCallback in this run

handler_vars == <<callbacks, cbs_on, registered, calls, exec>>

train_vars == <<pc, epoch, train_history, early_stop, es, result_package, eval_count,
                last_report>>

cloud_vars == <<local_fs, s3_bucket, gcs_bucket, last_op>>

report_vars == <<training_history, metric_name_cols>>

checkpoint_vars == <<run_timestamp, checkpoints>>

vars == <<callbacks, cbs_on, registered, calls, exec, pc, epoch, train_history,
          early_stop, es, result_package, eval_count, last_report,
          local_fs, s3_bucket, gcs_bucket, last_op,
          training_history, metric_name_cols, run_timestamp, checkpoints>>

----------------------------------------------------------------------------
(* Bounds *)

\* most callbacks ever registered with one handler
MaxRegistered == 3
\* longest list passed to one register_callbacks call
MaxBatch == 2
\* most epochs of one training run
MaxEpochs == 5
\* largest patience of an EarlyStoppingCallback
MaxPatience == 1

----------------------------------------------------------------------------
(* Callbacks and stages *)

\* the hooks of AbstractCallback
Hooks == {"on_epoch_begin", "on_epoch_end", "on_train_begin", "on_train_end",
          "on_batch_begin", "on_batch_end",
          "on_after_gradient_update", "on_after_optimizer_step"}

\* the stages the aitoolbox handlers have an execute_<stage> method for
Stages == {"epoch_begin", "epoch_end", "train_begin", "train_end",
           "batch_begin", "batch_end", "gradient_update", "optimizer_step"}

\* the stages the older AIToolbox handler has an execute_<stage> method for
OldStages == {"epoch_begin", "epoch_end", "train_begin", "train_end",
              "batch_begin", "batch_end"}

Handlers == {"basic", "staged", "old"}

\* A callback object: its execution_order, the hooks its class overrides with
\* a non-empty body (impl) and the hooks that raise when called (raises).
Cb(name, order, impl, raises) ==
    [callback_name |-> name, kind |-> "abstract", is_callback |-> TRUE,
     execution_order |-> order, impl |-> impl, raises |-> raises]

\* the callback objects offered to register_callbacks
CallbackObjs ==
    { Cb("eval", 0, {"on_epoch_end", "on_train_end"}, {}),
      Cb("noop", 0, {}, {}),
      Cb("strict_report", 0, {"on_epoch_end", "on_train_end"}, {"on_epoch_end"}),
      Cb("all_hooks", 1, Hooks, {}),
      Cb("first", -1, {"on_epoch_end", "on_batch_end", "on_after_optimizer_step"}, {}) }

\* an object that is not an AbstractCallback
NotACallback ==
    [callback_name |-> "object", kind |-> "abstract", is_callback |-> FALSE,
     execution_order |-> 0, impl |-> {}, raises |-> {}]

SeqsUpTo(S, n) == UNION { [1..k -> S] : k \in 0..n }

\* the values of the callbacks argument: None, or a list
CallbackArgs ==
    { [is_none |-> TRUE, items |-> <<>>] } \cup
    { [is_none |-> FALSE, items |-> s] : s \in SeqsUpTo(CallbackObjs \cup {NotACallback}, MaxBatch) }

----------------------------------------------------------------------------
(* Python builtins *)

\* all(0 == cb.execution_order for cb in cbs)
all_zero_order(cbs) == \A i \in 1..Len(cbs) : 0 = cbs[i].execution_order

\* one step of a stable sort: x goes behind every element whose key is <= its own
insert_unstable(s, x) ==
    LET k == Cardinality({ i \in 1..Len(s) : s[i].execution_order < x.execution_order })
    IN  SubSeq(s, 1, k) \o <<x>> \o SubSeq(s, k + 1, Len(s))

insert_sorted(s, x) ==
    LET k == Cardinality({ i \in 1..Len(s) : s[i].execution_order <= x.execution_order })
    IN  SubSeq(s, 1, k) \o <<x>> \o SubSeq(s, k + 1, Len(s))

\* sorted(cbs, key=lambda cb: cb.execution_order) and list.sort(key=...): stable
RECURSIVE sorted(_)
sorted(cbs) ==
    IF cbs = <<>> THEN <<>>
    ELSE insert_sorted(sorted(SubSeq(cbs, 1, Len(cbs) - 1)), cbs[Len(cbs)])

----------------------------------------------------------------------------
(* Callback handlers *)

\* AbstractCallback.register_train_loop_object: stores the train loop reference
\* in the callback and returns the callback itself
register_train_loop_object(cb, train_loop_obj) == cb

\* aitoolbox.utils.util.is_empty_function applied to the bound hook of cb
is_empty_function(cb, hook) == hook \notin cb.impl

\* BasicCallbacksHandler.enforce_callbacks_quality: TRUE when it raises
enforce_callbacks_quality_raises(cbs) ==
    \E i \in 1..Len(cbs) : ~cbs[i].is_callback

\* the list comprehension of register_callbacks raises on an object without
\* register_train_loop_object
register_comprehension_raises(cbs) ==
    \E i \in 1..Len(cbs) : ~cbs[i].is_callback

\* the sort at the end of register_callbacks
sort_unless_all_zero(cbs) ==
    IF ~all_zero_order(cbs) THEN sorted(cbs) ELSE cbs

\* BasicCallbacksHandler.register_callbacks: the new train_loop_obj.callbacks
Basic_register_callbacks(tl_callbacks, arg) ==
    LET appended ==
            IF ~arg.is_none /\ Len(arg.items) > 0
            THEN tl_callbacks \o [i \in 1..Len(arg.items) |->
                                    register_train_loop_object(arg.items[i], "basic")]
            ELSE tl_callbacks
    IN  sort_unless_all_zero(appended)

\* AIToolbox CallbacksHandler.register_callbacks: the new train_loop_obj.callbacks
Old_register_callbacks(tl_callbacks, arg) ==
    LET appended ==
            IF ~arg.is_none /\ Len(arg.items) > 0
            THEN tl_callbacks \o [i \in 1..Len(arg.items) |->
                                    register_train_loop_object(arg.items[i], "old")]
            ELSE tl_callbacks
    IN  sort_unless_all_zero(appended)

\* variant: every hook list takes the callback, implemented or not
append_always(lists, cb) ==
    [h \in Hooks |-> Append(lists[h], cb)]

\* the hooks split_on_execution_position tests, each with the list it appends to
\* (the list is named after the hook)
append_if_implemented(lists, cb) ==
    [h \in Hooks |-> IF ~is_empty_function(cb, h) THEN Append(lists[h], cb) ELSE lists[h]]

RECURSIVE split_append(_, _)
split_append(lists, cbs) ==
    IF cbs = <<>> THEN lists
    ELSE append_if_implemented(split_append(lists, SubSeq(cbs, 1, Len(cbs) - 1)),
                               cbs[Len(cbs)])

\* variant: the per-stage lists are left in append order
split_without_sort(lists, arg) ==
    IF ~arg.is_none /\ Len(arg.items) > 0
    THEN split_append(lists, arg.items)
    ELSE lists

\* CallbacksHandler.split_on_execution_position (register_train_loop False)
split_on_execution_position(lists, arg) ==
    LET appended ==
            IF ~arg.is_none /\ Len(arg.items) > 0
            THEN split_append(lists, arg.items)
            ELSE lists
    IN  [h \in Hooks |-> sort_unless_all_zero(appended[h])]

\* the hook each execute_<stage> calls
HookOf(stage) ==
    CASE stage = "epoch_begin" -> "on_epoch_begin"
      [] stage = "epoch_end" -> "on_epoch_end"
      [] stage = "train_begin" -> "on_train_begin"
      [] stage = "train_end" -> "on_train_end"
      [] stage = "batch_begin" -> "on_batch_begin"
      [] stage = "batch_end" -> "on_batch_end"
      [] stage = "gradient_update" -> "on_after_gradient_update"
      [] stage = "optimizer_step" -> "on_after_optimizer_step"

\* the per-stage list each CallbacksHandler.execute_<stage> iterates over
StageList(lists, stage) ==
    CASE stage = "epoch_begin" -> lists["on_epoch_begin"]
      [] stage = "epoch_end" -> lists["on_epoch_end"]
      [] stage = "train_begin" -> lists["on_train_begin"]
      [] stage = "train_end" -> lists["on_train_end"]
      [] stage = "batch_begin" -> lists["on_batch_begin"]
      [] stage = "batch_end" -> lists["on_batch_end"]
      [] stage = "gradient_update" -> lists["on_after_gradient_update"]
      [] stage = "optimizer_step" -> lists["on_after_optimizer_step"]

----------------------------------------------------------------------------
(* Cloud storage adapters, dataset folders and model savers *)

\* the local paths passed to the adapters and found on the disk
LocalPaths == {"~/data/f", "/home/user/data/f", "/tmp/g"}

\* the object paths inside a bucket
CloudPaths == {"data/f", "data/g"}

HomeDir == "/home/user"

Nothing == [kind |-> "none", content |-> "none"]

File(content) == [kind |-> "file", content |-> content]

Folder == [kind |-> "dir", content |-> "none"]

NoExc == [type |-> "none", code |-> "none"]

Exc(type, code) == [type |-> type, code |-> code]

NoOp ==
    [op |-> "none", cloud_file_path |-> "none", local_file_path |-> "none",
     fs_before |-> <<>>, sdk_calls |-> 0, sdk_exc |-> NoExc, exc |-> NoExc]

\* os.path.expanduser: a leading ~ becomes the home directory
expanduser(path) ==
    IF Len(path) >= 1 /\ SubSeq(path, 1, 1) = "~"
    THEN HomeDir \o SubSeq(path, 2, Len(path))
    ELSE path

\* os.path.isfile
isfile(fs, path) == fs[path].kind = "file"

\* boto3 Bucket.download_file: the exception it raises and the disk afterwards;
\* fault is a failure of the service or the connection
s3_download_file(bucket, fs, cloud_file_path, local_file_path, fault) ==
    IF fault # NoExc THEN [exc |-> fault, local_fs |-> fs]
    ELSE IF bucket[cloud_file_path] = "absent"
    THEN [exc |-> Exc("ClientError", "404"), local_fs |-> fs]
    ELSE IF fs[local_file_path].kind = "dir"
    THEN [exc |-> Exc("IsADirectoryError", "none"), local_fs |-> fs]
    ELSE [exc |-> NoExc,
          local_fs |-> [fs EXCEPT ![local_file_path] = File(bucket[cloud_file_path])]]

\* google.cloud.storage Blob.download_to_filename
gcs_download_to_filename(bucket, fs, cloud_file_path, local_file_path, fault) ==
    IF fault # NoExc THEN [exc |-> fault, local_fs |-> fs]
    ELSE IF bucket[cloud_file_path] = "absent"
    THEN [exc |-> Exc("NotFound", "404"), local_fs |-> fs]
    ELSE IF fs[local_file_path].kind = "dir"
    THEN [exc |-> Exc("IsADirectoryError", "none"), local_fs |-> fs]
    ELSE [exc |-> NoExc,
          local_fs |-> [fs EXCEPT ![local_file_path] = File(bucket[cloud_file_path])]]

\* boto3 client.upload_file
s3_upload_file(fs, bucket, local_file_path, cloud_file_path, fault) ==
    IF fs[local_file_path].kind # "file"
    THEN [exc |-> Exc("FileNotFoundError", "none"), bucket |-> bucket]
    ELSE IF fault # NoExc THEN [exc |-> fault, bucket |-> bucket]
    ELSE [exc |-> NoExc,
          bucket |-> [bucket EXCEPT ![cloud_file_path] = fs[local_file_path].content]]

\* BaseDataSaver.save_file
save_file(fs, bucket, local_file_path, cloud_file_path, fault) ==
    LET r == s3_upload_file(fs, bucket, expanduser(local_file_path), cloud_file_path, fault)
    IN  [exc |-> r.exc, bucket |-> r.bucket, sdk_calls |-> 1, sdk_exc |-> r.exc]

\* variant: every ClientError of the download is caught
load_file_catch_all(bucket, fs, cloud_file_path, local_file_path, fault) ==
    LET local == expanduser(local_file_path)
    IN  IF isfile(fs, local)
        THEN [exc |-> NoExc, local_fs |-> fs, sdk_calls |-> 0, sdk_exc |-> NoExc]
        ELSE LET r == s3_download_file(bucket, fs, cloud_file_path, local, fault)
             IN  [exc |-> IF r.exc.type = "ClientError" THEN NoExc ELSE r.exc,
                  local_fs |-> r.local_fs, sdk_calls |-> 1, sdk_exc |-> r.exc]

\* BaseDataLoader.load_file
load_file(bucket, fs, cloud_file_path, local_file_path, fault) ==
    LET local == expanduser(local_file_path)
    IN  IF isfile(fs, local)
        THEN [exc |-> NoExc, local_fs |-> fs, sdk_calls |-> 0, sdk_exc |-> NoExc]
        ELSE LET r == s3_download_file(bucket, fs, cloud_file_path, local, fault)
             IN  [exc |-> IF r.exc.type = "ClientError"
                          THEN (IF r.exc.code = "404" THEN NoExc ELSE r.exc)
                          ELSE r.exc,
                  local_fs |-> r.local_fs, sdk_calls |-> 1, sdk_exc |-> r.exc]

\* variant: the existence check is made on the path as given
fetch_file_unexpanded(bucket, fs, cloud_file_path, local_file_path, fault) ==
    IF isfile(fs, local_file_path)
    THEN [exc |-> NoExc, local_fs |-> fs, sdk_calls |-> 0, sdk_exc |-> NoExc]
    ELSE LET r == gcs_download_to_filename(bucket, fs, cloud_file_path,
                                           expanduser(local_file_path), fault)
         IN  [exc |-> r.exc, local_fs |-> r.local_fs, sdk_calls |-> 1, sdk_exc |-> r.exc]

\* BaseDatasetGoogleStorageFetcher.fetch_file
fetch_file(bucket, fs, cloud_file_path, local_file_path, fault) ==
    LET local == expanduser(local_file_path)
    IN  IF isfile(fs, local)
        THEN [exc |-> NoExc, local_fs |-> fs, sdk_calls |-> 0, sdk_exc |-> NoExc]
        ELSE LET r == gcs_download_to_filename(bucket, fs, cloud_file_path, local, fault)
             IN  [exc |-> r.exc, local_fs |-> r.local_fs, sdk_calls |-> 1,
                  sdk_exc |-> r.exc]

OpLog(op, cloud_file_path, local_file_path, r) ==
    [op |-> op, cloud_file_path |-> cloud_file_path, local_file_path |-> local_file_path,
     fs_before |-> local_fs, sdk_calls |-> r.sdk_calls, sdk_exc |-> r.sdk_exc,
     exc |-> r.exc]

\* a call of BaseDataLoader.load_file
LoadFile(cloud_file_path, local_file_path, fault) ==
    LET r == load_file(s3_bucket, local_fs, cloud_file_path, local_file_path, fault)
    IN  /\ local_fs' = r.local_fs
        /\ last_op' = OpLog("load_file", cloud_file_path, local_file_path, r)
        /\ UNCHANGED <<s3_bucket, gcs_bucket>>
        /\ UNCHANGED handler_vars
        /\ UNCHANGED train_vars
        /\ UNCHANGED report_vars
        /\ UNCHANGED checkpoint_vars

\* a call of BaseDatasetGoogleStorageFetcher.fetch_file
FetchFile(cloud_file_path, local_file_path, fault) ==
    LET r == fetch_file(gcs_bucket, local_fs, cloud_file_path, local_file_path, fault)
    IN  /\ local_fs' = r.local_fs
        /\ last_op' = OpLog("fetch_file", cloud_file_path, local_file_path, r)
        /\ UNCHANGED <<s3_bucket, gcs_bucket>>
        /\ UNCHANGED handler_vars
        /\ UNCHANGED train_vars
        /\ UNCHANGED report_vars
        /\ UNCHANGED checkpoint_vars

\* a call of BaseDataSaver.save_file
SaveFile(local_file_path, cloud_file_path, fault) ==
    LET r == save_file(local_fs, s3_bucket, local_file_path, cloud_file_path, fault)
    IN  /\ s3_bucket' = r.bucket
        /\ last_op' = OpLog("save_file", cloud_file_path, local_file_path, r)
        /\ UNCHANGED <<local_fs, gcs_bucket>>
        /\ UNCHANGED handler_vars
        /\ UNCHANGED train_vars
        /\ UNCHANGED report_vars
        /\ UNCHANGED checkpoint_vars

\* os.path.join of two components
join(a, b) ==
    IF Len(b) >= 1 /\ SubSeq(b, 1, 1) = "/" THEN b
    ELSE IF a = "" \/ SubSeq(a, Len(a), Len(a)) = "/" THEN a \o b
    ELSE a \o "/" \o b

\* os.path.exists
exists(fs, path) == fs[path].kind # "none"

\* the paths of the disk inside the directory path
inside(fs, path) ==
    { p \in DOMAIN fs : Len(p) > Len(path) /\ SubSeq(p, 1, Len(path) + 1) = path \o "/" }

\* the directory a path of the disk lies in: the longest path of the disk it is inside of
parent(fs, path) ==
    LET above == { d \in DOMAIN fs : path \in inside(fs, d) }
    IN  CHOOSE d \in above : \A e \in above : Len(e) <= Len(d)

has_parent(fs, path) == \E d \in DOMAIN fs : path \in inside(fs, d)

\* shutil.rmtree: removes the directory and everything inside it
rmtree(fs, path) ==
    IF fs[path].kind = "none" THEN [exc |-> Exc("FileNotFoundError", "none"), local_fs |-> fs]
    ELSE IF fs[path].kind # "dir"
    THEN [exc |-> Exc("NotADirectoryError", "none"), local_fs |-> fs]
    ELSE [exc |-> NoExc,
          local_fs |-> [p \in DOMAIN fs |->
                           IF p = path \/ p \in inside(fs, path) THEN Nothing ELSE fs[p]]]

\* os.mkdir: creates one directory inside an existing directory
mkdir(fs, path) ==
    IF fs[path].kind # "none" THEN [exc |-> Exc("FileExistsError", "none"), local_fs |-> fs]
    ELSE IF has_parent(fs, path) /\ fs[parent(fs, path)].kind = "none"
    THEN [exc |-> Exc("FileNotFoundError", "none"), local_fs |-> fs]
    ELSE IF has_parent(fs, path) /\ fs[parent(fs, path)].kind = "file"
    THEN [exc |-> Exc("NotADirectoryError", "none"), local_fs |-> fs]
    ELSE [exc |-> NoExc, local_fs |-> [fs EXCEPT ![path] = Folder]]

\* BaseDataLoader.__init__: the base data folder path kept by the loader
local_base_data_folder_path(arg) == expanduser(arg)

\* a call that returned value, raised exc, or neither yet
Returned(value, fs) == [returned |-> TRUE, value |-> value, exc |-> NoExc, local_fs |-> fs]

Raised(exc, fs) == [returned |-> FALSE, value |-> FALSE, exc |-> exc, local_fs |-> fs]

\* variant: the answer is whether the folder exists, whatever protect_local_folder is
exists_local_data_folder_plain(fs, base, data_folder_name, protect_local_folder) ==
    LET path == join(base, data_folder_name)
    IN  IF exists(fs, path) THEN Returned(TRUE, fs)
        ELSE LET m == mkdir(fs, path)
             IN  IF m.exc # NoExc THEN Raised(m.exc, m.local_fs)
                 ELSE Returned(FALSE, m.local_fs)

\* BaseDataLoader.exists_local_data_folder
exists_local_data_folder(fs, base, data_folder_name, protect_local_folder) ==
    LET path == join(base, data_folder_name)
    IN  IF exists(fs, path) /\ protect_local_folder THEN Returned(TRUE, fs)
        ELSE LET d == IF exists(fs, path) /\ ~protect_local_folder
                      THEN rmtree(fs, path)
                      ELSE [exc |-> NoExc, local_fs |-> fs]
             IN  IF d.exc # NoExc THEN Raised(d.exc, d.local_fs)
                 ELSE LET m == mkdir(d.local_fs, path)
                      IN  IF m.exc # NoExc THEN Raised(m.exc, m.local_fs)
                          ELSE Returned(FALSE, m.local_fs)

\* the base data folder a loader is constructed with
BaseDataFolderArg == "~/data"

\* the dataset folders asked for
DataFolderNames == {"SQuAD2", "HotpotQA"}

\* the paths of the disk under the base data folder
DataPaths ==
    {"/home/user/data", "/home/user/data/SQuAD2",
     "/home/user/data/SQuAD2/train-v2.0.json", "/home/user/data/SQuAD2/dev-v2.0.json",
     "/home/user/data/HotpotQA", "/home/user/data/HotpotQA/HotpotQA.zip"}

\* the objects of the dataset bucket that the SQuAD2 fetcher asks for
SquadCloudPaths == {"SQuAD2/train-v2.0.json", "SQuAD2/dev-v2.0.json"}

\* a call of BaseDataLoader.exists_local_data_folder
ExistsLocalDataFolder(data_folder_name, protect_local_folder) ==
    LET r == exists_local_data_folder(local_fs, local_base_data_folder_path(BaseDataFolderArg),
                                      data_folder_name, protect_local_folder)
    IN  /\ local_fs' = r.local_fs
        /\ last_op' = [op |-> "exists_local_data_folder",
                       data_folder_name |-> data_folder_name,
                       protect_local_folder |-> protect_local_folder,
                       fs_before |-> local_fs, returned |-> r.returned,
                       value |-> r.value, exc |-> r.exc]
        /\ UNCHANGED <<s3_bucket, gcs_bucket>>
        /\ UNCHANGED handler_vars
        /\ UNCHANGED train_vars
        /\ UNCHANGED report_vars
        /\ UNCHANGED checkpoint_vars

\* SQuAD2DatasetFetcher.fetch_dataset
fetch_dataset(fs, bucket, base, protect_local_folder, fault1, fault2) ==
    LET e == exists_local_data_folder(fs, base, "SQuAD2", protect_local_folder)
    IN  IF ~e.returned THEN [exc |-> e.exc, local_fs |-> e.local_fs]
        ELSE IF e.value THEN [exc |-> NoExc, local_fs |-> e.local_fs]
        ELSE LET l1 == load_file(bucket, e.local_fs, "SQuAD2/train-v2.0.json",
                                 join(join(base, "SQuAD2"), "train-v2.0.json"), fault1)
             IN  IF l1.exc # NoExc THEN [exc |-> l1.exc, local_fs |-> l1.local_fs]
                 ELSE LET l2 == load_file(bucket, l1.local_fs, "SQuAD2/dev-v2.0.json",
                                          join(join(base, "SQuAD2"), "dev-v2.0.json"),
                                          fault2)
                      IN  [exc |-> l2.exc, local_fs |-> l2.local_fs]

\* a call of SQuAD2DatasetFetcher.fetch_dataset
FetchDataset(protect_local_folder, fault1, fault2) ==
    LET r == fetch_dataset(local_fs, s3_bucket,
                           local_base_data_folder_path(BaseDataFolderArg),
                           protect_local_folder, fault1, fault2)
    IN  /\ local_fs' = r.local_fs
        /\ last_op' = [op |-> "fetch_dataset", data_folder_name |-> "SQuAD2",
                       protect_local_folder |-> protect_local_folder,
                       fs_before |-> local_fs, returned |-> r.exc = NoExc,
                       value |-> FALSE, exc |-> r.exc]
        /\ UNCHANGED <<s3_bucket, gcs_bucket>>
        /\ UNCHANGED handler_vars
        /\ UNCHANGED train_vars
        /\ UNCHANGED report_vars
        /\ UNCHANGED checkpoint_vars

\* Python's None and a value that is not None
None == [is_none |-> TRUE, value |-> "none"]

Some(v) == [is_none |-> FALSE, value |-> v]

\* a model saver as constructed
ModelSaver(kind, bucket_name, checkpoint_model) ==
    [kind |-> kind, bucket_name |-> bucket_name, checkpoint_model |-> checkpoint_model]

\* a model handed to a saver: whether it is a dict with the required contents, and its weights
Model(is_valid, weights) == [is_valid |-> is_valid, weights |-> weights]

\* PyTorchLocalModelSaver.check_model_dict_contents: the exception it raises
check_model_dict_contents(model) ==
    IF model.is_valid THEN NoExc ELSE Exc("ValueError", "none")

\* the save_model of the local savers: it raises, or writes the model to a
\* file on the local disk and returns its name and its path
local_save_model(fs, model, outcome) ==
    IF outcome.exc # NoExc
    THEN [exc |-> outcome.exc, local_fs |-> fs, model_name |-> "none",
          model_local_path |-> "none"]
    ELSE [exc |-> NoExc,
          local_fs |-> [fs EXCEPT ![outcome.model_local_path] = File(model.weights)],
          model_name |-> outcome.model_name,
          model_local_path |-> outcome.model_local_path]

\* datetime.datetime.fromtimestamp(time.time()).strftime(...) when no timestamp is given
timestamp_or_now(experiment_timestamp, now) ==
    IF experiment_timestamp.is_none THEN now ELSE experiment_timestamp.value

\* variant: the experiment folder is always the final model folder
cloud_storage_folder_structure_model(self, project_name, experiment_name, experiment_timestamp) ==
    join(join(project_name, experiment_name \o "_" \o experiment_timestamp), "model")

\* BaseModelSaver.create_experiment_cloud_storage_folder_structure
create_experiment_cloud_storage_folder_structure(self, project_name, experiment_name, experiment_timestamp) ==
    join(join(project_name, experiment_name \o "_" \o experiment_timestamp),
         IF ~self.checkpoint_model THEN "model" ELSE "checkpoint_model")

\* one step of a save_model call, for the log of the call
Step(name, exc) == [step |-> name, exc |-> exc]

\* a save_model call that raised
SaveRaised(exc, fs, bucket, events) ==
    [returned |-> FALSE, exc |-> exc, ret |-> <<>>, local_fs |-> fs, bucket |-> bucket,
     events |-> events]

\* variant: the upload is made before the local save
upload_then_save_locally(self, fs, bucket, model, project_name, experiment_name, experiment_timestamp, now, outcome, fault, events) ==
    LET timestamp == timestamp_or_now(experiment_timestamp, now)
        experiment_s3_path ==
            create_experiment_cloud_storage_folder_structure(self, project_name,
                                                             experiment_name, timestamp)
        model_s3_path == join(experiment_s3_path, outcome.model_name)
        u == save_file(fs, bucket, outcome.model_local_path, model_s3_path, fault)
        uploaded == Append(events, Step("upload", u.exc))
        l == local_save_model(fs, model, outcome)
        saved == Append(uploaded, Step("local_save", l.exc))
    IN  IF outcome.exc # NoExc THEN SaveRaised(outcome.exc, fs, bucket, events)
        ELSE IF u.exc # NoExc THEN SaveRaised(u.exc, fs, u.bucket, uploaded)
        ELSE [returned |-> TRUE, exc |-> NoExc,
              ret |-> <<join(self.bucket_name, model_s3_path), timestamp,
                        l.model_local_path>>,
              local_fs |-> l.local_fs, bucket |-> u.bucket, events |-> saved]

\* the body shared by KerasS3ModelSaver.save_model and PyTorchS3ModelSaver.save_model:
\* timestamp, local save, cloud path, upload, return
save_locally_then_upload(self, fs, bucket, model, project_name, experiment_name, experiment_timestamp, now, outcome, fault, events) ==
    LET timestamp == timestamp_or_now(experiment_timestamp, now)
        l == local_save_model(fs, model, outcome)
        saved == Append(events, Step("local_save", l.exc))
    IN  IF l.exc # NoExc THEN SaveRaised(l.exc, l.local_fs, bucket, saved)
        ELSE
          LET experiment_s3_path ==
                  create_experiment_cloud_storage_folder_structure(
                      self, project_name, experiment_name, timestamp)
              model_s3_path == join(experiment_s3_path, l.model_name)
              u == save_file(l.local_fs, bucket, l.model_local_path, model_s3_path, fault)
              uploaded == Append(saved, Step("upload", u.exc))
          IN  IF u.exc # NoExc THEN SaveRaised(u.exc, l.local_fs, u.bucket, uploaded)
              ELSE [returned |-> TRUE, exc |-> NoExc,
                    ret |-> <<join(self.bucket_name, model_s3_path), timestamp,
                              l.model_local_path>>,
                    local_fs |-> l.local_fs, bucket |-> u.bucket, events |-> uploaded]

\* KerasS3ModelSaver.save_model
KerasS3_save_model(self, fs, bucket, model, project_name, experiment_name, experiment_timestamp, now, outcome, fault) ==
    save_locally_then_upload(self, fs, bucket, model, project_name, experiment_name,
                             experiment_timestamp, now, outcome, fault, <<>>)

\* PyTorchS3ModelSaver.save_model
PyTorchS3_save_model(self, fs, bucket, model, project_name, experiment_name, experiment_timestamp, now, outcome, fault) ==
    LET c == check_model_dict_contents(model)
        checked == <<Step("check_model_dict_contents", c)>>
    IN  IF c # NoExc THEN SaveRaised(c, fs, bucket, checked)
        ELSE save_locally_then_upload(self, fs, bucket, model, project_name,
                                      experiment_name, experiment_timestamp, now, outcome,
                                      fault, checked)

\* save_model of the saver self
save_model(self, fs, bucket, model, project_name, experiment_name, experiment_timestamp, now, outcome, fault) ==
    IF self.kind = "keras"
    THEN KerasS3_save_model(self, fs, bucket, model, project_name, experiment_name,
                            experiment_timestamp, now, outcome, fault)
    ELSE PyTorchS3_save_model(self, fs, bucket, model, project_name, experiment_name,
                              experiment_timestamp, now, outcome, fault)

\* the project and experiment the savers are used for
ProjectName == "QA"

ExperimentName == "FastQA"

\* a timestamp passed to save_model, and the time of the clock when none is passed
GivenTimestamp == "2019-01-01_10:00:00"

Now == "2019-01-02_12:00:00"

\* the folder on the local disk that the local savers write into
ModelResultFolder == "/home/user/model_result"

ModelNames == {"model_FastQA_E1.pth"}

ModelLocalPaths == { join(ModelResultFolder, n) : n \in ModelNames }

Savers == { ModelSaver(k, "model-result", c) : k \in {"keras", "pytorch"}, c \in BOOLEAN }

Models == { Model(TRUE, "weights1"), Model(TRUE, "weights2"), Model(FALSE, "weights1") }

TimestampArgs == { None, Some(GivenTimestamp) }

\* what the local saver does on one call: it raises, or saves under one of the names
LocalSaveOutcomes ==
    { [exc |-> Exc("OSError", "none"), model_name |-> "none", model_local_path |-> "none"] }
        \cup { [exc |-> NoExc, model_name |-> n,
                model_local_path |-> join(ModelResultFolder, n)] : n \in ModelNames }

\* the object paths of the model bucket that the savers can write
ModelCloudPaths ==
    { join(create_experiment_cloud_storage_folder_structure(s, ProjectName, ExperimentName,
                                                            t), n) :
        s \in Savers, t \in {GivenTimestamp, Now}, n \in ModelNames }

\* a call of save_model on a saver; outcome is what the local saver does with
\* the model, the names, the timestamp, epoch and protect_existing_folder
SaveModel(self, model, experiment_timestamp, outcome, fault) ==
    LET r == save_model(self, local_fs, s3_bucket, model, ProjectName, ExperimentName,
                        experiment_timestamp, Now, outcome, fault)
    IN  /\ local_fs' = r.local_fs
        /\ s3_bucket' = r.bucket
        /\ last_op' = [op |-> "save_model", self |-> self, model |-> model,
                       experiment_timestamp |-> experiment_timestamp,
                       outcome |-> outcome, bucket_before |-> s3_bucket,
                       events |-> r.events, returned |-> r.returned, ret |-> r.ret,
                       exc |-> r.exc]
        /\ UNCHANGED gcs_bucket
        /\ UNCHANGED handler_vars
        /\ UNCHANGED train_vars
        /\ UNCHANGED report_vars
        /\ UNCHANGED checkpoint_vars

----------------------------------------------------------------------------
(* The callbacks of AIToolbox/torchtrain/callbacks/callbacks.py *)

\* 'loss' in monitor
contains(s, sub) ==
    \E i \in 1..(Len(s) - Len(sub) + 1) : SubSeq(s, i, i + Len(sub) - 1) = sub

\* ModelPerformanceEvaluationCallback.__init__
EvalCb(on_each_epoch, on_train_data, on_val_data) ==
    [callback_name |-> "Model performance calculator - evaluator", kind |-> "eval",
     is_callback |-> TRUE, execution_order |-> 0,
     on_each_epoch |-> on_each_epoch, on_train_data |-> on_train_data,
     on_val_data |-> on_val_data]

\* ModelPerformancePrintReportCallback.__init__
PrintCb(metrics, on_each_epoch, strict_metric_reporting) ==
    [callback_name |-> "Model performance print reporter", kind |-> "print",
     is_callback |-> TRUE, execution_order |-> 0,
     metrics |-> metrics, on_each_epoch |-> on_each_epoch,
     strict_metric_reporting |-> strict_metric_reporting]

\* EarlyStoppingCallback.__init__: the arguments
EarlyStoppingCb(monitor, min_delta, patience) ==
    [callback_name |-> "EarlyStopping", kind |-> "early_stopping",
     is_callback |-> TRUE, execution_order |-> 0,
     monitor |-> monitor, min_delta |-> min_delta, patience |-> patience]

\* EarlyStoppingCallback.__init__: the state it starts with
EarlyStopping_init(self) ==
    [patience_count |-> self.patience, best_is_none |-> TRUE, best_performance |-> 0,
     best_epoch |-> 0]

NoReport ==
    [attempted |-> FALSE, hook |-> "none", before |-> <<>>, after |-> <<>>,
     lines |-> <<>>, exc |-> "none"]

\* variant: a missing metric raises whatever strict_metric_reporting says
RECURSIVE print_performance_report_strict(_, _, _, _)
print_performance_report_strict(self, th, i, lines) ==
    IF i > Len(self.metrics) THEN [lines |-> lines, exc |-> "none", train_history |-> th]
    ELSE LET metric_name == self.metrics[i]
         IN  IF metric_name \notin DOMAIN th
             THEN [lines |-> lines, exc |-> "ValueError", train_history |-> th]
             ELSE IF th[metric_name] = <<>>
             THEN [lines |-> lines, exc |-> "IndexError", train_history |-> th]
             ELSE print_performance_report_strict(self, th, i + 1,
                      Append(lines, [metric |-> metric_name, missing |-> FALSE,
                                     value |-> th[metric_name][Len(th[metric_name])]]))

\* ModelPerformancePrintReportCallback.print_performance_report, from the i-th
\* metric on: the lines printed, the exception raised and train_history afterwards
RECURSIVE print_performance_report(_, _, _, _)
print_performance_report(self, th, i, lines) ==
    IF i > Len(self.metrics) THEN [lines |-> lines, exc |-> "none", train_history |-> th]
    ELSE LET metric_name == self.metrics[i]
         IN  IF metric_name \notin DOMAIN th
             THEN IF self.strict_metric_reporting
                  THEN [lines |-> lines, exc |-> "ValueError", train_history |-> th]
                  ELSE print_performance_report(self, th, i + 1,
                           Append(lines, [metric |-> metric_name, missing |-> TRUE,
                                          value |-> 0]))
             ELSE IF th[metric_name] = <<>>
             THEN [lines |-> lines, exc |-> "IndexError", train_history |-> th]
             ELSE print_performance_report(self, th, i + 1,
                      Append(lines, [metric |-> metric_name, missing |-> FALSE,
                                     value |-> th[metric_name][Len(th[metric_name])]]))

\* the body shared by ModelPerformancePrintReportCallback.on_train_end and on_epoch_end
Print_report(self, tl, hook) ==
    LET r == print_performance_report(self, tl.train_history, 1, <<>>)
    IN  [tl EXCEPT !.train_history = r.train_history,
                   !.last_report = [attempted |-> TRUE, hook |-> hook,
                                    before |-> tl.train_history,
                                    after |-> r.train_history,
                                    lines |-> r.lines, exc |-> r.exc],
                   !.exc = r.exc]

\* ModelPerformancePrintReportCallback.on_train_end
Print_on_train_end(self, tl) == Print_report(self, tl, "on_train_end")

\* ModelPerformancePrintReportCallback.on_epoch_end
Print_on_epoch_end(self, tl) ==
    IF self.on_each_epoch THEN Print_report(self, tl, "on_epoch_end") ELSE tl

\* ModelPerformanceEvaluationCallback.evaluate_model_performance; env holds
\* the results the result packages compute from the predictions
evaluate_model_performance(self, tl, env) ==
    IF DOMAIN tl.train_history = {}
    THEN [tl EXCEPT !.eval_count = @ + 1, !.exc = "IndexError"]
    ELSE [tl EXCEPT !.eval_count = @ + 1,
                    !.result_package =
                        [train |-> IF self.on_train_data THEN env.train ELSE @.train,
                         val |-> IF self.on_val_data THEN env.val ELSE @.val]]

\* ModelPerformanceEvaluationCallback.on_train_end
Eval_on_train_end(self, tl, env) == evaluate_model_performance(self, tl, env)

\* ModelPerformanceEvaluationCallback.on_epoch_end
Eval_on_epoch_end(self, tl, env) ==
    IF ~self.on_each_epoch THEN tl
    ELSE LET t == evaluate_model_performance(self, tl, env)
             evaluated_metrics ==
                 IF self.on_val_data THEN DOMAIN t.result_package.val
                 ELSE DOMAIN t.result_package.train
             train_names == IF self.on_train_data
                            THEN { "train_" \o m : m \in evaluated_metrics } ELSE {}
             val_names == IF self.on_val_data
                          THEN { "val_" \o m : m \in evaluated_metrics } ELSE {}
             th == t.train_history
             had(k) == IF k \in DOMAIN th THEN th[k] ELSE <<>>
             th2 == [k \in DOMAIN th \cup train_names \cup val_names |->
                       IF k \in train_names
                       THEN Append(had(k), t.result_package.train[
                                CHOOSE m \in evaluated_metrics : "train_" \o m = k])
                       ELSE IF k \in val_names
                       THEN Append(had(k), t.result_package.val[
                                CHOOSE m \in evaluated_metrics : "val_" \o m = k])
                       ELSE th[k]]
         IN  IF t.exc # "none" THEN t ELSE [t EXCEPT !.train_history = th2]

\* variant: early_stop is set as soon as the patience reaches zero
EarlyStopping_on_epoch_end_eager(self, tl) ==
    LET th == tl.train_history
    IN  IF self.monitor \notin DOMAIN th THEN [tl EXCEPT !.exc = "KeyError"]
        ELSE IF th[self.monitor] = <<>> THEN [tl EXCEPT !.exc = "IndexError"]
        ELSE LET current_performance == th[self.monitor][Len(th[self.monitor])]
                 e == tl.es
             IN  IF e.best_is_none
                 THEN [tl EXCEPT !.es = [e EXCEPT !.best_is_none = FALSE,
                                                  !.best_performance = current_performance,
                                                  !.best_epoch = tl.epoch]]
                 ELSE LET improved ==
                              IF contains(self.monitor, "loss")
                              THEN current_performance < e.best_performance - self.min_delta
                              ELSE current_performance > e.best_performance + self.min_delta
                          e2 == IF improved
                                THEN [e EXCEPT !.best_performance = current_performance,
                                               !.best_epoch = tl.epoch,
                                               !.patience_count = self.patience]
                                ELSE [e EXCEPT !.patience_count = @ - 1]
                      IN  [tl EXCEPT !.es = e2,
                                     !.early_stop = IF e2.patience_count <= 0 THEN TRUE ELSE @]

\* EarlyStoppingCallback.on_epoch_end
EarlyStopping_on_epoch_end(self, tl) ==
    LET th == tl.train_history
    IN  IF self.monitor \notin DOMAIN th THEN [tl EXCEPT !.exc = "KeyError"]
        ELSE IF th[self.monitor] = <<>> THEN [tl EXCEPT !.exc = "IndexError"]
        ELSE LET current_performance == th[self.monitor][Len(th[self.monitor])]
                 e == tl.es
             IN  IF e.best_is_none
                 THEN [tl EXCEPT !.es = [e EXCEPT !.best_is_none = FALSE,
                                                  !.best_performance = current_performance,
                                                  !.best_epoch = tl.epoch]]
                 ELSE LET improved ==
                              IF contains(self.monitor, "loss")
                              THEN current_performance < e.best_performance - self.min_delta
                              ELSE current_performance > e.best_performance + self.min_delta
                          e2 == IF improved
                                THEN [e EXCEPT !.best_performance = current_performance,
                                               !.best_epoch = tl.epoch,
                                               !.patience_count = self.patience]
                                ELSE [e EXCEPT !.patience_count = @ - 1]
                      IN  [tl EXCEPT !.es = e2,
                                     !.early_stop = IF e2.patience_count < 0 THEN TRUE ELSE @]

\* EarlyStoppingCallback.on_train_end: prints only
EarlyStopping_on_train_end(self, tl) == tl

\* ModelCheckpointCallback.__init__
CheckpointCb(project_name, experiment_name, local_model_result_folder_path) ==
    [callback_name |-> "Model checkpoint at end of epoch", kind |-> "checkpoint",
     is_callback |-> TRUE, execution_order |-> 0,
     project_name |-> project_name, experiment_name |-> experiment_name,
     local_model_result_folder_path |-> local_model_result_folder_path,
     model_checkpointer |-> ModelSaver("pytorch", "model-result", TRUE)]

\* the train loop after a save_model call of the checkpoint callback
Checkpointed(tl, r, timestamp_arg, epoch_arg) ==
    [tl EXCEPT !.local_fs = r.local_fs,
               !.s3_bucket = r.bucket,
               !.checkpoints = Append(@, [hook |-> "on_epoch_end", epoch |-> epoch_arg,
                                          experiment_timestamp |-> timestamp_arg,
                                          returned |-> r.returned, ret |-> r.ret,
                                          exc |-> r.exc]),
               !.exc = r.exc.type]

\* variant: the timestamp of the train loop is not passed on to the saver
Checkpoint_on_epoch_end_no_timestamp(self, tl, env) ==
    Checkpointed(tl,
                 save_model(self.model_checkpointer, tl.local_fs, tl.s3_bucket, env.model,
                            self.project_name, self.experiment_name, None, env.now,
                            env.outcome, env.fault),
                 None, tl.epoch)

\* ModelCheckpointCallback.on_epoch_end
Checkpoint_on_epoch_end(self, tl, env) ==
    Checkpointed(tl,
                 save_model(self.model_checkpointer, tl.local_fs, tl.s3_bucket, env.model,
                            self.project_name, self.experiment_name,
                            tl.experiment_timestamp, env.now, env.outcome, env.fault),
                 tl.experiment_timestamp, tl.epoch)

\* callback.<hook>() on one callback: the train loop afterwards
call_hook(cb, hook, tl, env) ==
    LET t == [tl EXCEPT !.calls = Append(@, [cb |-> cb, hook |-> hook])]
    IN  CASE cb.kind = "abstract" ->
                [t EXCEPT !.exc = IF hook \in cb.raises THEN "Exception" ELSE "none"]
          [] cb.kind = "eval" ->
                IF hook = "on_epoch_end" THEN Eval_on_epoch_end(cb, t, env)
                ELSE IF hook = "on_train_end" THEN Eval_on_train_end(cb, t, env)
                ELSE t
          [] cb.kind = "print" ->
                IF hook = "on_epoch_end" THEN Print_on_epoch_end(cb, t)
                ELSE IF hook = "on_train_end" THEN Print_on_train_end(cb, t)
                ELSE t
          [] cb.kind = "early_stopping" ->
                IF hook = "on_epoch_end" THEN EarlyStopping_on_epoch_end(cb, t)
                ELSE IF hook = "on_train_end" THEN EarlyStopping_on_train_end(cb, t)
                ELSE t
          [] cb.kind = "checkpoint" ->
                IF hook = "on_epoch_end" THEN Checkpoint_on_epoch_end(cb, t, env)
                ELSE t

\* for callback in cbs: callback.<hook>()  -- an exception ends the loop
RECURSIVE for_each_callback(_, _, _, _)
for_each_callback(cbs, hook, tl, env) ==
    IF cbs = <<>> THEN tl
    ELSE LET t == call_hook(Head(cbs), hook, tl, env)
         IN  IF t.exc # "none" THEN t
             ELSE for_each_callback(Tail(cbs), hook, t, env)

\* variant: the loop stops one callback short
Basic_execute_short(tl_callbacks, stage, tl, env) ==
    for_each_callback(SubSeq(tl_callbacks, 1, Len(tl_callbacks) - 1), HookOf(stage), tl, env)

\* BasicCallbacksHandler.execute_<stage>
Basic_execute(tl_callbacks, stage, tl, env) ==
    for_each_callback(tl_callbacks, HookOf(stage), tl, env)

\* AIToolbox CallbacksHandler.execute_<stage>
Old_execute(tl_callbacks, stage, tl, env) ==
    for_each_callback(tl_callbacks, HookOf(stage), tl, env)

\* CallbacksHandler.execute_<stage>
Staged_execute(lists, stage, tl, env) ==
    for_each_callback(StageList(lists, stage), HookOf(stage), tl, env)

----------------------------------------------------------------------------
(* State machine *)

NoExec == [handler |-> "none", stage |-> "none", raised |-> FALSE, exc |-> "none"]

NoResults == [train |-> <<>>, val |-> <<>>]

\* the train loop as the hooks see it at the start of an execute_<stage>
TL ==
    [train_history |-> train_history, epoch |-> epoch, early_stop |-> early_stop,
     es |-> es, result_package |-> result_package, eval_count |-> eval_count,
     last_report |-> NoReport, calls |-> <<>>, exc |-> "none"]

\* the train loop and the logs after an execute_<stage> of handler h
Executed(h, stage, t) ==
    /\ train_history' = t.train_history
    /\ early_stop' = t.early_stop
    /\ es' = t.es
    /\ result_package' = t.result_package
    /\ eval_count' = t.eval_count
    /\ last_report' = t.last_report
    /\ calls' = t.calls
    /\ exec' = [handler |-> h, stage |-> stage, raised |-> t.exc # "none", exc |-> t.exc]

\* register_callbacks called with the same argument on a BasicCallbacksHandler,
\* a CallbacksHandler and an AIToolbox CallbacksHandler, each with its own train
\* loop. A call that raises leaves the lists as they were.
RegisterCallbacks(arg) ==
    /\ Len(registered) + Len(arg.items) <= MaxRegistered
    /\ IF enforce_callbacks_quality_raises(arg.items) \/ register_comprehension_raises(arg.items)
       THEN UNCHANGED <<callbacks, cbs_on, registered>>
       ELSE /\ callbacks' = [callbacks EXCEPT
                   !["basic"] = Basic_register_callbacks(@, arg),
                   !["staged"] = Basic_register_callbacks(@, arg),
                   !["old"] = Old_register_callbacks(@, arg)]
            /\ cbs_on' = split_on_execution_position(cbs_on, arg)
            /\ registered' = registered \o arg.items
    /\ calls' = <<>>
    /\ exec' = NoExec
    /\ UNCHANGED train_vars
    /\ UNCHANGED cloud_vars
    /\ UNCHANGED report_vars
    /\ UNCHANGED checkpoint_vars

\* BasicCallbacksHandler.execute_<stage>, called on its own
BasicExecute(stage) ==
    /\ Executed("basic", stage, Basic_execute(callbacks["basic"], stage, TL, NoResults))
    /\ UNCHANGED <<callbacks, cbs_on, registered, pc, epoch>>
    /\ UNCHANGED cloud_vars
    /\ UNCHANGED report_vars
    /\ UNCHANGED checkpoint_vars

\* AIToolbox CallbacksHandler.execute_<stage>, called on its own
OldExecute(stage) ==
    /\ Executed("old", stage, Old_execute(callbacks["old"], stage, TL, NoResults))
    /\ UNCHANGED <<callbacks, cbs_on, registered, pc, epoch>>
    /\ UNCHANGED cloud_vars
    /\ UNCHANGED report_vars
    /\ UNCHANGED checkpoint_vars

\* CallbacksHandler.execute_<stage>, called on its own
StagedExecute(stage) ==
    /\ Executed("staged", stage, Staged_execute(cbs_on, stage, TL, NoResults))
    /\ UNCHANGED <<callbacks, cbs_on, registered, pc, epoch>>
    /\ UNCHANGED cloud_vars
    /\ UNCHANGED report_vars
    /\ UNCHANGED checkpoint_vars

\* TrainLoop.fit(callbacks=cbs): the callbacks, as constructed, are registered
\* with the train loop's AIToolbox CallbacksHandler
Fit(cbs) ==
    /\ pc = "new"
    /\ callbacks' = [callbacks EXCEPT
           !["old"] = Old_register_callbacks(@, [is_none |-> FALSE, items |-> cbs])]
    /\ registered' = registered \o cbs
    /\ es' = IF \E i \in 1..Len(cbs) : cbs[i].kind = "early_stopping"
             THEN EarlyStopping_init(
                      cbs[CHOOSE i \in 1..Len(cbs) : cbs[i].kind = "early_stopping"])
             ELSE es
    /\ pc' = "fit"
    /\ calls' = <<>>
    /\ exec' = NoExec
    /\ UNCHANGED <<cbs_on, epoch, train_history, early_stop, result_package, eval_count,
                   last_report>>
    /\ UNCHANGED cloud_vars
    /\ UNCHANGED report_vars
    /\ UNCHANGED checkpoint_vars

\* TrainLoop at the end of an epoch: the epoch's losses are recorded and the
\* handler's execute_epoch_end runs; an exception leaves the loop
EpochEnd(loss, val_loss, env) ==
    /\ pc = "fit"
    /\ epoch < MaxEpochs
    /\ LET th == [train_history EXCEPT !["loss"] = Append(@, loss),
                                       !["val_loss"] = Append(@, val_loss)]
           t == Old_execute(callbacks["old"], "epoch_end",
                            [TL EXCEPT !.train_history = th], env)
       IN  /\ Executed("old", "epoch_end", t)
           /\ pc' = IF t.exc # "none" THEN "interrupted" ELSE "fit"
    /\ epoch' = epoch + 1
    /\ UNCHANGED <<callbacks, cbs_on, registered>>
    /\ UNCHANGED cloud_vars
    /\ UNCHANGED report_vars
    /\ UNCHANGED checkpoint_vars

\* TrainLoop after the last epoch: the handler's execute_train_end runs
TrainEnd(env) ==
    /\ pc = "fit"
    /\ epoch >= 1
    /\ LET t == Old_execute(callbacks["old"], "train_end", TL, env)
       IN  /\ Executed("old", "train_end", t)
           /\ pc' = IF t.exc # "none" THEN "interrupted" ELSE "done"
    /\ UNCHANGED <<callbacks, cbs_on, registered, epoch>>
    /\ UNCHANGED cloud_vars
    /\ UNCHANGED report_vars
    /\ UNCHANGED checkpoint_vars

\* the train loop of a run with checkpoints, as the hooks see it
CheckpointTL ==
    [train_history |-> train_history, epoch |-> epoch, early_stop |-> early_stop,
     es |-> es, result_package |-> result_package, eval_count |-> eval_count,
     last_report |-> NoReport, calls |-> <<>>, exc |-> "none",
     local_fs |-> local_fs, s3_bucket |-> s3_bucket, checkpoints |-> checkpoints,
     experiment_timestamp |-> run_timestamp]

\* what a hook of a run with checkpoints meets: the model of the train loop,
\* the clock, what the local saver does and whether the upload fails
CheckpointEnv(model, now, outcome, fault) ==
    [train |-> <<>>, val |-> <<>>, model |-> model, now |-> now, outcome |-> outcome,
     fault |-> fault]

\* TrainLoop(...).fit(callbacks=cbs) of a train loop whose experiment_timestamp is timestamp
CheckpointFit(cbs, timestamp) ==
    /\ pc = "new"
    /\ callbacks' = [callbacks EXCEPT
           !["old"] = Old_register_callbacks(@, [is_none |-> FALSE, items |-> cbs])]
    /\ registered' = registered \o cbs
    /\ run_timestamp' = timestamp
    /\ pc' = "fit"
    /\ calls' = <<>>
    /\ exec' = NoExec
    /\ UNCHANGED <<cbs_on, epoch, train_history, early_stop, es, result_package,
                   eval_count, last_report, checkpoints>>
    /\ UNCHANGED cloud_vars
    /\ UNCHANGED report_vars

\* the train loop reaches a stage and its handler's execute_<stage> runs; the
\* epoch counter moves on after an epoch end, an exception leaves the loop
CheckpointStage(stage, env) ==
    /\ pc = "fit"
    /\ stage = "epoch_end" => epoch < MaxEpochs
    /\ LET t == Old_execute(callbacks["old"], stage, CheckpointTL, env)
       IN  /\ Executed("old", stage, t)
           /\ local_fs' = t.local_fs
           /\ s3_bucket' = t.s3_bucket
           /\ checkpoints' = t.checkpoints
           /\ pc' = IF t.exc # "none" THEN "interrupted"
                    ELSE IF stage = "train_end" THEN "done" ELSE "fit"
           /\ epoch' = IF stage = "epoch_end" /\ t.exc = "none" THEN epoch + 1 ELSE epoch
    /\ UNCHANGED <<callbacks, cbs_on, registered, run_timestamp>>
    /\ UNCHANGED <<gcs_bucket, last_op>>
    /\ UNCHANGED report_vars

\* Python's "x in list"
is_in(x, list) == \E i \in 1..Len(list) : list[i] = x

\* one item of the flattened training history dict
HistoryItem(metric_name, result_history) ==
    [metric_name |-> metric_name, result_history |-> result_history]

\* TrainingHistory: a result of a metric is recorded, a new metric being
\* added at the end of the dict
insert_single_result_into_history(th, metric_name, value) ==
    IF \E i \in 1..Len(th) : th[i].metric_name = metric_name
    THEN [i \in 1..Len(th) |->
             IF th[i].metric_name = metric_name
             THEN HistoryItem(metric_name, Append(th[i].result_history, value))
             ELSE th[i]]
    ELSE Append(th, HistoryItem(metric_name, <<value>>))

\* TrainingHistoryPlotter.plot_performance_curve: the figure, as its axis
\* label and its points
plot_performance_curve(metric_name, result_history, iteration_frequency) ==
    [metric_name |-> metric_name,
     x_label |-> IF iteration_frequency.is_none THEN "Epoch" ELSE "Iteration",
     x |-> IF iteration_frequency.is_none
           THEN [i \in 1..Len(result_history) |-> i - 1]
           ELSE [i \in 1..Len(result_history) |-> i * iteration_frequency.value],
     y |-> result_history]

\* variant: metrics with a single recorded value are plotted too
generate_plots_any_length(th, iteration_frequency, iteration_level_metric_names) ==
    LET chosen == SelectSeq(th, LAMBDA item :
                      \/ /\ iteration_frequency.is_none
                         /\ ~is_in(item.metric_name, iteration_level_metric_names)
                      \/ /\ ~iteration_frequency.is_none
                         /\ is_in(item.metric_name, iteration_level_metric_names))
    IN  [i \in 1..Len(chosen) |->
            [metric_name |-> chosen[i].metric_name,
             fig |-> plot_performance_curve(chosen[i].metric_name,
                                            chosen[i].result_history, iteration_frequency)]]

\* TrainingHistoryPlotter.generate_plots: the (metric_name, fig) pairs it yields
generate_plots(th, iteration_frequency, iteration_level_metric_names) ==
    LET chosen == SelectSeq(th, LAMBDA item :
                      /\ Len(item.result_history) > 1
                      /\ \/ /\ iteration_frequency.is_none
                            /\ ~is_in(item.metric_name, iteration_level_metric_names)
                         \/ /\ ~iteration_frequency.is_none
                            /\ is_in(item.metric_name, iteration_level_metric_names))
    IN  [i \in 1..Len(chosen) |->
            [metric_name |-> chosen[i].metric_name,
             fig |-> plot_performance_curve(chosen[i].metric_name,
                                            chosen[i].result_history, iteration_frequency)]]

\* a generate_report call of the plotter that raised; saved are the files
\* written, the disk keeps the folders only
PlotRaised(exc, fs) ==
    [returned |-> FALSE, exc |-> exc, plots_paths |-> <<>>, plotted |-> <<>>,
     saved |-> <<>>, local_fs |-> fs]

\* TrainingHistoryPlotter.plot_png
plot_png(fs, th, plots_local_folder_path, plots_folder_name, iteration_frequency, iteration_level_metric_names) ==
    LET plots == generate_plots(th, iteration_frequency, iteration_level_metric_names)
        file_name(i) == plots[i].metric_name \o ".png"
        file_path(i) == join(plots_local_folder_path, file_name(i))
    IN  IF plots # <<>> /\ fs[plots_local_folder_path].kind # "dir"
        THEN PlotRaised(Exc("FileNotFoundError", "none"), fs)
        ELSE [returned |-> TRUE, exc |-> NoExc,
              plots_paths |-> [i \in 1..Len(plots) |->
                                  <<join(plots_folder_name, file_name(i)), file_path(i)>>],
              plotted |-> plots,
              saved |-> [i \in 1..Len(plots) |-> file_path(i)],
              local_fs |-> fs]

\* TrainingHistoryPlotter.plot_pdf
plot_pdf(fs, th, plots_local_folder_path, plots_file_name, iteration_frequency, iteration_level_metric_names) ==
    LET file_name == plots_file_name \o ".pdf"
        file_path == join(plots_local_folder_path, file_name)
        plots == generate_plots(th, iteration_frequency, iteration_level_metric_names)
    IN  IF fs[plots_local_folder_path].kind # "dir"
        THEN PlotRaised(Exc("FileNotFoundError", "none"), fs)
        ELSE [returned |-> TRUE, exc |-> NoExc,
              plots_paths |-> << <<file_name, file_path>> >>,
              plotted |-> plots,
              saved |-> <<file_path>>,
              local_fs |-> fs]

\* TrainingHistoryPlotter.generate_report
Plotter_generate_report(experiment_results_local_path, fs, th, plots_folder_name, file_format, iteration_frequency, iteration_level_metric_names) ==
    IF file_format = "png"
    THEN LET plots_local_folder_path ==
                 join(experiment_results_local_path, plots_folder_name)
             m == IF ~exists(fs, plots_local_folder_path)
                  THEN mkdir(fs, plots_local_folder_path)
                  ELSE [exc |-> NoExc, local_fs |-> fs]
         IN  IF m.exc # NoExc THEN PlotRaised(m.exc, m.local_fs)
             ELSE plot_png(m.local_fs, th, plots_local_folder_path, plots_folder_name,
                           iteration_frequency, iteration_level_metric_names)
    ELSE IF file_format = "pdf"
    THEN plot_pdf(fs, th, experiment_results_local_path, plots_folder_name,
                  iteration_frequency, iteration_level_metric_names)
    ELSE PlotRaised(Exc("ValueError", "none"), fs)

\* variant: an iteration index of 0 counts as no iteration index
should_write_metric_falsy_zero(metric_name, iteration_idx, iteration_level_metric_names) ==
    LET no_idx == iteration_idx.is_none \/ iteration_idx.value = 0
    IN  \/ no_idx /\ ~is_in(metric_name, iteration_level_metric_names)
        \/ ~no_idx /\ is_in(metric_name, iteration_level_metric_names)

\* TrainingHistoryWriter.should_write_metric
should_write_metric(metric_name, iteration_idx, iteration_level_metric_names) ==
    \/ iteration_idx.is_none /\ ~is_in(metric_name, iteration_level_metric_names)
    \/ ~iteration_idx.is_none /\ is_in(metric_name, iteration_level_metric_names)

\* training_history_dict[metric_name][-1]
last_result(th, metric_name) ==
    LET h == th[CHOOSE i \in 1..Len(th) : th[i].metric_name = metric_name].result_history
    IN  h[Len(h)]

\* the metric names of the training history that a record of this granularity holds
metrics_to_write(th, iteration_idx, iteration_level_metric_names) ==
    LET chosen == SelectSeq(th, LAMBDA item :
                      should_write_metric(item.metric_name, iteration_idx,
                                          iteration_level_metric_names))
    IN  [i \in 1..Len(chosen) |-> chosen[i].metric_name]

\* one line or row written to a report file
Row(kind, first, names, values) ==
    [kind |-> kind, first |-> first, names |-> names, values |-> values]

\* TrainingHistoryWriter.write_txt: the lines appended to the file
write_txt(th, epoch_arg, iteration_idx, iteration_level_metric_names) ==
    LET names == metrics_to_write(th, iteration_idx, iteration_level_metric_names)
        title == IF iteration_idx.is_none
                 THEN Row("Epoch", epoch_arg, <<>>, <<>>)
                 ELSE Row("Iteration", iteration_idx.value + 1, <<>>, <<>>)
    IN  <<title>> \o [i \in 1..Len(names) |->
                         Row("metric", 0, <<names[i]>>, <<last_result(th, names[i])>>)]

\* sorted(a) == sorted(b) for two lists of names
same_sorted(a, b) ==
    /\ Len(a) = Len(b)
    /\ \A x \in { a[i] : i \in 1..Len(a) } \cup { b[i] : i \in 1..Len(b) } :
          Cardinality({ i \in 1..Len(a) : a[i] = x })
              = Cardinality({ i \in 1..Len(b) : b[i] = x })

\* TrainingHistoryWriter.write_csv_tsv: the rows appended to the file and
\* metric_name_cols afterwards
write_csv_tsv(cols, th, epoch_arg, iteration_idx, iteration_level_metric_names) ==
    LET current_metric_names ==
            metrics_to_write(th, iteration_idx, iteration_level_metric_names)
        report_freq_title == IF iteration_idx.is_none THEN "Epoch" ELSE "Iteration"
        cols1 == IF cols.is_none THEN current_metric_names ELSE cols.value
        rows1 == IF cols.is_none
                 THEN << Row("header", report_freq_title, cols1, <<>>) >>
                 ELSE <<>>
        changed == ~same_sorted(current_metric_names, cols1)
        cols2 == IF changed THEN current_metric_names ELSE cols1
        rows2 == IF changed
                 THEN rows1 \o << Row("NEW_METRICS_DETECTED", "none", <<>>, <<>>),
                                  Row("header", report_freq_title, cols2, <<>>) >>
                 ELSE rows1
        report_idx == IF iteration_idx.is_none THEN epoch_arg ELSE iteration_idx.value + 1
    IN  [metric_name_cols |-> Some(cols2),
         rows |-> Append(rows2,
                         Row("record", report_idx, cols2,
                             [i \in 1..Len(cols2) |-> last_result(th, cols2[i])]))]

\* a generate_report call of the writer that raised
WriteRaised(exc, fs, cols) ==
    [returned |-> FALSE, exc |-> exc, ret |-> <<>>, rows |-> <<>>, saved |-> <<>>,
     local_fs |-> fs, metric_name_cols |-> cols]

\* TrainingHistoryWriter.generate_report
Writer_generate_report(experiment_results_local_path, cols, fs, th, epoch_arg, iteration_idx, iteration_level_metric_names, file_name, results_folder_name, file_format) ==
    LET results_write_local_folder_path ==
            join(experiment_results_local_path, results_folder_name)
        m == IF ~exists(fs, results_write_local_folder_path)
             THEN mkdir(fs, results_write_local_folder_path)
             ELSE [exc |-> NoExc, local_fs |-> fs]
        file_path == join(results_write_local_folder_path, file_name)
        ret == <<join(results_folder_name, file_name), file_path>>
    IN  IF m.exc # NoExc THEN WriteRaised(m.exc, m.local_fs, cols)
        ELSE IF file_format \notin {"txt", "tsv", "csv"}
        THEN WriteRaised(Exc("ValueError", "none"), m.local_fs, cols)
        ELSE IF m.local_fs[results_write_local_folder_path].kind # "dir"
        THEN WriteRaised(Exc("NotADirectoryError", "none"), m.local_fs, cols)
        ELSE IF file_format = "txt"
        THEN [returned |-> TRUE, exc |-> NoExc, ret |-> ret,
              rows |-> write_txt(th, epoch_arg, iteration_idx,
                                 iteration_level_metric_names),
              saved |-> <<file_path>>, local_fs |-> m.local_fs,
              metric_name_cols |-> cols]
        ELSE LET w == write_csv_tsv(cols, th, epoch_arg, iteration_idx,
                                    iteration_level_metric_names)
             IN  [returned |-> TRUE, exc |-> NoExc, ret |-> ret, rows |-> w.rows,
                  saved |-> <<file_path>>, local_fs |-> m.local_fs,
                  metric_name_cols |-> w.metric_name_cols]

\* the experiment results folder the plotter and the writer are constructed with
ResultsPath == "/home/user/results"

PlotsFolderName == "plots"

ResultsFolderName == "logs"

ReportFileName == "report"

\* the metrics of a training run
MetricNames == {"loss", "accumulated_loss", "val_acc"}

\* the folders of the disk that the plotter and the writer work in
ReportDiskPaths ==
    { ResultsPath, join(ResultsPath, PlotsFolderName), join(ResultsPath, ResultsFolderName) }

\* most results recorded for one metric
MaxRecorded == 2

\* a result of a metric is recorded in the training history; the log of the
\* last report, made from the history as it was, is cleared
InsertResult(metric_name, value) ==
    /\ \A i \in 1..Len(training_history) :
          training_history[i].metric_name = metric_name =>
              Len(training_history[i].result_history) < MaxRecorded
    /\ training_history' =
          insert_single_result_into_history(training_history, metric_name, value)
    /\ last_op' = NoOp
    /\ UNCHANGED metric_name_cols
    /\ UNCHANGED <<local_fs, s3_bucket, gcs_bucket>>
    /\ UNCHANGED handler_vars
    /\ UNCHANGED train_vars
    /\ UNCHANGED checkpoint_vars

\* a call of TrainingHistoryPlotter.generate_report
PlotterGenerateReport(file_format, iteration_frequency, iteration_level_metric_names) ==
    LET r == Plotter_generate_report(ResultsPath, local_fs, training_history,
                                     PlotsFolderName, file_format, iteration_frequency,
                                     iteration_level_metric_names)
    IN  /\ local_fs' = r.local_fs
        /\ last_op' = [op |-> "plotter.generate_report", file_format |-> file_format,
                       granularity |-> iteration_frequency,
                       iteration_level_metric_names |-> iteration_level_metric_names,
                       returned |-> r.returned, exc |-> r.exc, ret |-> r.plots_paths,
                       written |-> r.plotted, saved |-> r.saved]
        /\ UNCHANGED <<s3_bucket, gcs_bucket>>
        /\ UNCHANGED report_vars
        /\ UNCHANGED handler_vars
        /\ UNCHANGED train_vars
        /\ UNCHANGED checkpoint_vars

\* a call of TrainingHistoryWriter.generate_report
WriterGenerateReport(epoch_arg, iteration_idx, iteration_level_metric_names, file_format) ==
    LET r == Writer_generate_report(ResultsPath, metric_name_cols, local_fs,
                                    training_history, epoch_arg, iteration_idx,
                                    iteration_level_metric_names, ReportFileName,
                                    ResultsFolderName, file_format)
    IN  /\ local_fs' = r.local_fs
        /\ metric_name_cols' = r.metric_name_cols
        /\ last_op' = [op |-> "writer.generate_report", file_format |-> file_format,
                       granularity |-> iteration_idx,
                       iteration_level_metric_names |-> iteration_level_metric_names,
                       returned |-> r.returned, exc |-> r.exc, ret |-> r.ret,
                       written |-> r.rows, saved |-> r.saved]
        /\ UNCHANGED <<s3_bucket, gcs_bucket, training_history>>
        /\ UNCHANGED handler_vars
        /\ UNCHANGED train_vars
        /\ UNCHANGED checkpoint_vars

\* the handlers, the train loop and the callbacks as constructed
InitTraining ==
    /\ callbacks = [h \in Handlers |-> <<>>]
    /\ cbs_on = [h \in Hooks |-> <<>>]
    /\ registered = <<>>
    /\ calls = <<>>
    /\ exec = NoExec
    /\ pc = "new"
    /\ epoch = 0
    /\ train_history = [k \in {"loss", "val_loss"} |-> <<>>]
    /\ early_stop = FALSE
    /\ es = [patience_count |-> 0, best_is_none |-> TRUE, best_performance |-> 0,
             best_epoch |-> 0]
    /\ result_package = NoResults
    /\ eval_count = 0
    /\ last_report = NoReport
    /\ training_history = <<>>
    /\ metric_name_cols = None
    /\ run_timestamp = None
    /\ checkpoints = <<>>

\* an empty disk and empty buckets
InitNoFiles ==
    /\ local_fs = [p \in LocalPaths |-> Nothing]
    /\ s3_bucket = [c \in CloudPaths |-> "absent"]
    /\ gcs_bucket = [c \in CloudPaths |-> "absent"]
    /\ last_op = NoOp

Init == InitTraining /\ InitNoFiles

\* the callback handlers on their own
Next ==
    \/ \E arg \in CallbackArgs : RegisterCallbacks(arg)
    \/ \E stage \in Stages : BasicExecute(stage)
    \/ \E stage \in OldStages : OldExecute(stage)
    \/ \E stage \in Stages : StagedExecute(stage)

Spec == Init /\ [][Next]_vars

\* the callbacks of a training run that evaluates and reports
EvalCbs ==
    { EvalCb(e, t, v) : e \in BOOLEAN, t \in BOOLEAN, v \in BOOLEAN } \
        { EvalCb(e, FALSE, FALSE) : e \in BOOLEAN }

PrintMetricLists == { <<"val_acc">>, <<"train_acc", "val_acc">>, <<"f1", "loss">> }

PrintCbs ==
    { PrintCb(m, e, s) : m \in PrintMetricLists, e \in BOOLEAN, s \in BOOLEAN }

ReportCallbackLists ==
    { <<e>> : e \in EvalCbs } \cup { <<p>> : p \in PrintCbs }
        \cup { <<e, p>> : e \in EvalCbs, p \in PrintCbs }
        \cup { <<p, e>> : e \in EvalCbs, p \in PrintCbs }

ResultValues == 1..2

ReportEnvs ==
    { [train |-> [k \in {"acc"} |-> a], val |-> [k \in {"acc"} |-> b]] :
        a \in ResultValues, b \in ResultValues }

\* a training run with the evaluation and print report callbacks
NextReport ==
    \/ \E cbs \in ReportCallbackLists : Fit(cbs)
    \/ \E env \in ReportEnvs : EpochEnd(1, 1, env)
    \/ \E env \in ReportEnvs : TrainEnd(env)

SpecReport == Init /\ [][NextReport]_vars

\* the callbacks of a training run with early stopping
EarlyStoppingCbs ==
    { EarlyStoppingCb(m, d, p) :
        m \in {"val_loss", "val_acc"}, d \in 0..1, p \in 0..MaxPatience }

EarlyStopLists ==
    { <<s>> : s \in EarlyStoppingCbs }
        \cup { <<EvalCb(TRUE, FALSE, TRUE), s>> : s \in EarlyStoppingCbs }

Values == 1..3

EarlyStopEnv(v) == [train |-> [k \in {"acc"} |-> v], val |-> [k \in {"acc"} |-> v]]

\* a training run with the early stopping callback; every metric of an epoch
\* takes the same value
NextEarlyStop ==
    \/ \E cbs \in EarlyStopLists : Fit(cbs)
    \/ \E v \in Values : EpochEnd(v, v, EarlyStopEnv(v))
    \/ \E v \in Values : TrainEnd(EarlyStopEnv(v))

SpecEarlyStop == Init /\ [][NextEarlyStop]_vars

\* what the disk and the buckets may hold when an adapter is first called
InitFiles ==
    /\ local_fs \in { [p \in LocalPaths |->
                         IF p = "/home/user/data/f" THEN a
                         ELSE IF p = "/tmp/g" THEN b ELSE Nothing] :
                      a \in {Nothing, File("local"), Folder},
                      b \in {Nothing, File("local")} }
    /\ s3_bucket \in [CloudPaths -> {"absent", "cloud"}]
    /\ gcs_bucket \in [CloudPaths -> {"absent", "cloud"}]
    /\ last_op = NoOp

InitCloud == InitTraining /\ InitFiles

S3DownloadFaults ==
    {NoExc, Exc("ClientError", "403"), Exc("EndpointConnectionError", "none")}

GcsDownloadFaults == {NoExc, Exc("Forbidden", "403")}

S3UploadFaults == {NoExc, Exc("S3UploadFailedError", "none")}

\* the cloud storage adapters
NextCloud ==
    \/ \E c \in CloudPaths, l \in LocalPaths, f \in S3DownloadFaults : LoadFile(c, l, f)
    \/ \E c \in CloudPaths, l \in LocalPaths, f \in GcsDownloadFaults : FetchFile(c, l, f)
    \/ \E c \in CloudPaths, l \in LocalPaths, f \in S3UploadFaults : SaveFile(l, c, f)

SpecCloud == InitCloud /\ [][NextCloud]_vars

\* the disk under the base data folder when a loader is first used: a path
\* is there only inside a directory that is there
InitDataFolders ==
    /\ local_fs \in { fs \in [DataPaths -> {Nothing, File("local"), Folder}] :
                        /\ fs["/home/user/data"].kind # "file"
                        /\ \A p \in DataPaths :
                              /\ inside(fs, p) # {} /\ fs[p].kind # "dir" =>
                                    \A q \in inside(fs, p) : fs[q] = Nothing
                              /\ inside(fs, p) = {} /\ has_parent(fs, p) =>
                                    fs[p].kind # "dir" }
    /\ s3_bucket \in [SquadCloudPaths -> {"absent", "cloud"}]
    /\ gcs_bucket = [c \in CloudPaths |-> "absent"]
    /\ last_op = NoOp

InitDataLoader == InitTraining /\ InitDataFolders

\* the dataset folder check of the data loaders
NextDataLoader ==
    \/ \E n \in DataFolderNames, p \in BOOLEAN : ExistsLocalDataFolder(n, p)
    \/ \E p \in BOOLEAN, f1 \in S3DownloadFaults, f2 \in S3DownloadFaults :
          FetchDataset(p, f1, f2)

SpecDataLoader == InitDataLoader /\ [][NextDataLoader]_vars

\* the local disk and the model bucket before any model is saved
InitNoModels ==
    /\ local_fs = [p \in ModelLocalPaths |-> Nothing]
    /\ s3_bucket = [c \in ModelCloudPaths |-> "absent"]
    /\ gcs_bucket = [c \in CloudPaths |-> "absent"]
    /\ last_op = NoOp

InitModelSaver == InitTraining /\ InitNoModels

\* the S3 model savers
NextModelSaver ==
    \E self \in Savers, model \in Models, t \in TimestampArgs,
       o \in LocalSaveOutcomes, f \in S3UploadFaults :
        SaveModel(self, model, t, o, f)

SpecModelSaver == InitModelSaver /\ [][NextModelSaver]_vars

\* the disk before any report is generated: the experiment results folder is
\* there or not
InitNoReports ==
    /\ local_fs \in { [p \in ReportDiskPaths |-> IF p = ResultsPath THEN d ELSE Nothing] :
                        d \in {Folder, Nothing} }
    /\ s3_bucket = [c \in CloudPaths |-> "absent"]
    /\ gcs_bucket = [c \in CloudPaths |-> "absent"]
    /\ last_op = NoOp

InitReportGenerator == InitTraining /\ InitNoReports

RecordedValues == {1}

PlotFormats == {"png", "pdf", "svg"}

IterationFrequencies == { None, Some(2) }

IterationIndices == { None, Some(0), Some(1) }

\* iteration_level_metric_names as passed to the plotter and to the writer
IterationLevelMetricNames == { <<>>, <<"accumulated_loss">> }

WriterIterationLevelMetricNames == { <<"accumulated_loss">> }

WriterFormats == {"txt", "csv", "json"}

\* the training history plotter and writer
NextReportGenerator ==
    \/ \E m \in MetricNames, v \in RecordedValues : InsertResult(m, v)
    \/ \E f \in PlotFormats, q \in IterationFrequencies, n \in IterationLevelMetricNames :
          PlotterGenerateReport(f, q, n)
    \/ \E i \in IterationIndices, n \in WriterIterationLevelMetricNames,
          f \in WriterFormats :
          WriterGenerateReport(1, i, n, f)

SpecReportGenerator == InitReportGenerator /\ [][NextReportGenerator]_vars

\* the callbacks of a training run with checkpoints
CheckpointCbs == { CheckpointCb(ProjectName, ExperimentName, ModelResultFolder) }

CheckpointLists ==
    { <<c>> : c \in CheckpointCbs } \cup { <<Cb("noop", 0, {}, {}), c>> : c \in CheckpointCbs }

\* the time of the clock at a save
ClockTimes == { Now, "2019-01-02_13:00:00" }

\* the model of the train loop at an epoch end
CheckpointModels == { Model(TRUE, "weights1"), Model(FALSE, "weights1") }

\* the object paths of the model bucket that checkpoints can be written to
CheckpointCloudPaths ==
    { join(create_experiment_cloud_storage_folder_structure(
               c.model_checkpointer, ProjectName, ExperimentName, t), n) :
        c \in CheckpointCbs, t \in {GivenTimestamp} \cup ClockTimes, n \in ModelNames }

InitNoCheckpoints ==
    /\ local_fs = [p \in ModelLocalPaths |-> Nothing]
    /\ s3_bucket = [c \in CheckpointCloudPaths |-> "absent"]
    /\ gcs_bucket = [c \in CloudPaths |-> "absent"]
    /\ last_op = NoOp

InitCheckpoint == InitTraining /\ InitNoCheckpoints

\* a training run with the checkpoint callback
NextCheckpoint ==
    \/ \E cbs \in CheckpointLists, t \in TimestampArgs : CheckpointFit(cbs, t)
    \/ \E stage \in OldStages, m \in CheckpointModels, now \in ClockTimes,
          o \in LocalSaveOutcomes, f \in S3UploadFaults :
          CheckpointStage(stage, CheckpointEnv(m, now, o, f))

SpecCheckpoint == InitCheckpoint /\ [][NextCheckpoint]_vars

----------------------------------------------------------------------------
(* Properties of the callback handlers *)

\* the hook that belongs to a stage, by name
MatchingHook(stage) ==
    IF stage \in {"gradient_update", "optimizer_step"}
    THEN "on_after_" \o stage
    ELSE "on_" \o stage

Count(s, x) == Cardinality({ i \in 1..Len(s) : s[i] = x })

CbsOf(cs) == [i \in 1..Len(cs) |-> cs[i].cb]

IsSortedByOrder(s) ==
    \A i, j \in 1..Len(s) : i < j => s[i].execution_order <= s[j].execution_order

Orders == { c.execution_order : c \in CallbackObjs }

WithOrder(s, o) == SelectSeq(s, LAMBDA c : c.execution_order = o)

Implementing(s, hook) == SelectSeq(s, LAMBDA c : hook \in c.impl)

\* C1 as stated: after any register_callbacks calls, execute_<stage> of the
\* stage-filtering CallbacksHandler invokes the matching hook on exactly the
\* registered callbacks that implement the stage, once per registration, and
\* on no other callback.
C1_AsStated ==
    exec.handler = "staged" =>
        /\ \A i \in 1..Len(calls) : calls[i].hook = MatchingHook(exec.stage)
        /\ \A c \in CallbackObjs :
              Count(CbsOf(calls), c) =
                  IF MatchingHook(exec.stage) \in c.impl THEN Count(registered, c) ELSE 0

\* C1 (amended): execute_<stage> of the stage-filtering CallbacksHandler
\* invokes only the matching hook, only on registered callbacks that implement
\* the stage and at most once per registration; when no hook raises it invokes
\* it on every such callback exactly once per registration; when a hook raises,
\* the callbacks invoked are those up to and including the raising one in
\* execution order and the later ones are not invoked.
C1_StageFiltering ==
    exec.handler = "staged" =>
        LET hook == MatchingHook(exec.stage)
            n == Len(calls)
        IN  /\ \A i \in 1..n : calls[i].hook = hook /\ hook \in calls[i].cb.impl
            /\ \A c \in CallbackObjs :
                  /\ Count(CbsOf(calls), c) <= Count(registered, c)
                  /\ ~exec.raised =>
                        Count(CbsOf(calls), c) =
                            IF hook \in c.impl THEN Count(registered, c) ELSE 0
            /\ \A i \in 1..n : (hook \in calls[i].cb.raises) <=> (exec.raised /\ i = n)
            /\ exec.raised => n >= 1

\* C1 witness: a CallbacksHandler execution with a callback registered twice,
\* a registered callback that does not implement the stage, and every
\* implementing callback invoked
C1_Witness ==
    /\ exec.handler = "staged"
    /\ ~exec.raised
    /\ Len(calls) >= 2
    /\ \E c \in CallbackObjs : Count(registered, c) = 2 /\ Count(CbsOf(calls), c) = 2
    /\ \E c \in CallbackObjs : Count(registered, c) >= 1 /\ Count(CbsOf(calls), c) = 0

\* C2: after any register_callbacks calls (None and empty lists included) the
\* list every execute_<stage> iterates over is in non-decreasing
\* execution_order, and callbacks of equal execution_order keep their
\* registration order; for train_loop_obj.callbacks of the plain handlers and
\* for every per-stage list of the CallbacksHandler.
C2_ExecutionOrder ==
    /\ \A h \in {"basic", "old"} :
          /\ IsSortedByOrder(callbacks[h])
          /\ \A o \in Orders : WithOrder(callbacks[h], o) = WithOrder(registered, o)
    /\ \A stage \in Stages :
          /\ IsSortedByOrder(StageList(cbs_on, stage))
          /\ \A o \in Orders :
                WithOrder(StageList(cbs_on, stage), o) =
                    WithOrder(Implementing(registered, MatchingHook(stage)), o)

\* C2 witness: registration out of execution order, with two different
\* callbacks of the same execution_order in the list
C2_Witness ==
    /\ registered # callbacks["basic"]
    /\ \E i, j \in 1..Len(callbacks["basic"]) :
          /\ i < j
          /\ callbacks["basic"][i] # callbacks["basic"][j]
          /\ callbacks["basic"][i].execution_order = callbacks["basic"][j].execution_order
    /\ \E stage \in Stages :
          /\ Len(StageList(cbs_on, stage)) >= 2
          /\ StageList(cbs_on, stage) # Implementing(registered, MatchingHook(stage))

\* C3 as stated: one execute_<stage> of BasicCallbacksHandler or of the older
\* CallbacksHandler invokes the hook of that stage exactly once on every
\* callback in train_loop_obj.callbacks, invokes no other hook, and leaves the
\* registered callbacks and their order unchanged.
C3_AsStated ==
    [][ exec'.handler \in {"basic", "old"} =>
          /\ callbacks' = callbacks
          /\ calls' = [i \in 1..Len(callbacks[exec'.handler]) |->
                          [cb |-> callbacks[exec'.handler][i],
                           hook |-> MatchingHook(exec'.stage)]] ]_vars

\* C3 (amended): one execute_<stage> of BasicCallbacksHandler or of the older
\* CallbacksHandler invokes only the hook of that stage, in list order, once on
\* every callback in train_loop_obj.callbacks when no hook raises; when a hook
\* raises, once on every callback up to and including the raising one and on
\* none after it; the registered callbacks and their order stay unchanged.
C3_PlainDispatch ==
    [][ exec'.handler \in {"basic", "old"} =>
          LET cbs == callbacks[exec'.handler]
              hook == MatchingHook(exec'.stage)
              n == Len(calls')
          IN  /\ callbacks' = callbacks
              /\ n <= Len(cbs)
              /\ \A i \in 1..n : calls'[i] = [cb |-> cbs[i], hook |-> hook]
              /\ \A i \in 1..n : (hook \in cbs[i].raises) <=> (exec'.raised /\ i = n)
              /\ ~exec'.raised => n = Len(cbs)
              /\ exec'.raised => n >= 1 ]_vars

\* C3 witness: a plain handler execution in which the second of three
\* callbacks raised
C3_Witness ==
    /\ exec.handler \in {"basic", "old"}
    /\ exec.raised
    /\ Len(calls) = 2
    /\ Len(callbacks[exec.handler]) = 3

\* C4: with the same register_callbacks calls, for every stage the callbacks
\* the CallbacksHandler executes are the callbacks the BasicCallbacksHandler
\* executes with those not implementing the stage removed.
C4_FilteredEquivalence ==
    \A stage \in Stages :
        LET staged == Staged_execute(cbs_on, stage, TL, NoResults).calls
            basic == Basic_execute(callbacks["basic"], stage, TL, NoResults).calls
        IN  CbsOf(staged) = Implementing(CbsOf(basic), MatchingHook(stage))

\* C4 witness: the two handlers differ for some stage, and the per-stage list
\* had to be sorted
C4_Witness ==
    \E stage \in Stages :
        /\ Len(StageList(cbs_on, stage)) >= 2
        /\ Len(StageList(cbs_on, stage)) < Len(callbacks["basic"])
        /\ StageList(cbs_on, stage) # Implementing(registered, MatchingHook(stage))
        /\ ~all_zero_order(StageList(cbs_on, stage))

----------------------------------------------------------------------------
(* Properties of the evaluation, print report and early stopping callbacks *)

HasKind(cbs, kind) == \E i \in 1..Len(cbs) : cbs[i].kind = kind

TheCb(cbs, kind) == cbs[CHOOSE i \in 1..Len(cbs) : cbs[i].kind = kind]

ListedBefore(cbs, kind1, kind2) ==
    \E i, j \in 1..Len(cbs) : i < j /\ cbs[i].kind = kind1 /\ cbs[j].kind = kind2

\* the train_history entries the evaluation callback calculates results for
EvaluatedNames(e) ==
    (IF e.on_train_data THEN {"train_acc"} ELSE {}) \cup
    (IF e.on_val_data THEN {"val_acc"} ELSE {})

\* C5 as stated: with ModelPerformanceEvaluationCallback listed before
\* ModelPerformancePrintReportCallback, whenever the print report callback
\* attempts to print (at epoch end or train end) the results calculated by the
\* evaluation callback are already in train_history.
C5_AsStated ==
    (ListedBefore(registered, "eval", "print") /\ last_report.attempted) =>
        \A name \in EvaluatedNames(TheCb(registered, "eval")) :
            name \in DOMAIN last_report.before

\* C6: print_performance_report with a metric missing from train_history:
\* not strict, the metric is skipped without an exception and the other
\* metrics are reported; strict, a ValueError is raised and interrupts the
\* training loop; train_history is not modified by the report.
C6_MissingMetric ==
    last_report.attempted =>
        LET p == TheCb(callbacks["old"], "print")
            before == last_report.before
            present == SelectSeq(p.metrics, LAMBDA m : m \in DOMAIN before)
            reported == SelectSeq(last_report.lines, LAMBDA l : ~l.missing)
        IN  /\ last_report.after = before
            /\ ~p.strict_metric_reporting =>
                  /\ last_report.exc = "none"
                  /\ Len(reported) = Len(present)
                  /\ \A i \in 1..Len(present) :
                        /\ reported[i].metric = present[i]
                        /\ reported[i].value = before[present[i]][Len(before[present[i]])]
            /\ (p.strict_metric_reporting /\ Len(present) < Len(p.metrics)) =>
                  /\ last_report.exc = "ValueError"
                  /\ exec.exc = "ValueError"
                  /\ pc = "interrupted"
            /\ (p.strict_metric_reporting /\ Len(present) = Len(p.metrics)) =>
                  last_report.exc = "none"

\* C6 witness: a report that is not strict, whose first metric is missing and
\* whose second metric is reported
C6_Witness ==
    /\ last_report.attempted
    /\ ~TheCb(callbacks["old"], "print").strict_metric_reporting
    /\ Len(last_report.lines) = 2
    /\ last_report.lines[1].missing
    /\ ~last_report.lines[2].missing
    /\ pc = "fit"

\* the best value and the number of non-improving epochs since the last
\* improvement, after the first k values of a metric's history
RECURSIVE Track(_, _, _, _)
Track(h, k, lower_is_better, min_delta) ==
    IF k = 1 THEN [best |-> h[1], streak |-> 0]
    ELSE LET prev == Track(h, k - 1, lower_is_better, min_delta)
             beats == IF lower_is_better THEN prev.best - h[k] > min_delta
                      ELSE h[k] - prev.best > min_delta
         IN  IF beats THEN [best |-> h[k], streak |-> 0]
             ELSE [best |-> prev.best, streak |-> prev.streak + 1]

MonitorHistory == train_history[TheCb(callbacks["old"], "early_stopping").monitor]

StreakAfter(k) ==
    LET s == TheCb(callbacks["old"], "early_stopping")
    IN  Track(MonitorHistory, k, s.monitor \in {"loss", "val_loss"}, s.min_delta).streak

EarlyStoppingRan ==
    /\ HasKind(callbacks["old"], "early_stopping")
    /\ TheCb(callbacks["old"], "early_stopping").monitor \in DOMAIN train_history
    /\ Len(MonitorHistory) >= 1

\* C7: EarlyStoppingCallback with patience p sets early_stop at the end of the
\* first epoch that completes p+1 non-improving epochs since the last
\* improvement and at no earlier epoch; an epoch improves when the monitored
\* value beats best_performance by more than min_delta (lower for a monitor
\* with 'loss' in its name, higher otherwise); an improving epoch resets the
\* remaining patience to p.
C7_EarlyStopping ==
    EarlyStoppingRan =>
        LET s == TheCb(callbacks["old"], "early_stopping")
            n == Len(MonitorHistory)
        IN  /\ early_stop <=> \E k \in 1..n : StreakAfter(k) >= s.patience + 1
            /\ StreakAfter(n) = 0 => es.patience_count = s.patience
            /\ es.patience_count = s.patience - StreakAfter(n)

\* C7 witness: patience 1; an epoch that did not improve, then an improving
\* one, then two that did not improve, the second of which set early_stop
C7_Witness ==
    /\ EarlyStoppingRan
    /\ TheCb(callbacks["old"], "early_stopping").patience = 1
    /\ early_stop
    /\ LET n == Len(MonitorHistory)
       IN  /\ n = 5
           /\ StreakAfter(2) = 1
           /\ StreakAfter(3) = 0
           /\ StreakAfter(5) = 2

\* C8 as stated: in a run of N epoch ends followed by one train end,
\* evaluate_model_performance runs exactly once when on_each_epoch is False
\* (on_epoch_end changing nothing) and exactly N times when on_each_epoch is True.
C8_AsStated ==
    HasKind(callbacks["old"], "eval") =>
        LET e == TheCb(callbacks["old"], "eval")
        IN  /\ pc = "done" => eval_count = IF e.on_each_epoch THEN epoch ELSE 1
            /\ (~e.on_each_epoch /\ pc = "fit") =>
                  /\ eval_count = 0
                  /\ result_package = NoResults
                  /\ DOMAIN train_history = {"loss", "val_loss"}

----------------------------------------------------------------------------
(* Properties of the cloud storage adapters *)

\* the local path an adapter works on, for each path it can be given
ExpandedPath(path) ==
    IF path = "~/data/f" THEN "/home/user/data/f" ELSE path

\* C9 as stated: an exception raised by the cloud SDK during load_file,
\* fetch_file or save_file propagates to the caller; no SDK error becomes a
\* normal return and nothing is retried.
C9_AsStated ==
    /\ last_op.sdk_calls <= 1
    /\ last_op.sdk_exc # NoExc => last_op.exc = last_op.sdk_exc

\* C9 (amended): an exception raised by the cloud SDK during load_file,
\* fetch_file or save_file propagates to the caller and nothing is retried,
\* except that load_file catches a botocore ClientError with error code "404"
\* and returns normally; every other SDK error propagates unchanged.
C9_Propagation ==
    /\ last_op.sdk_calls <= 1
    /\ last_op.sdk_exc # NoExc =>
          IF last_op.op = "load_file" /\ last_op.sdk_exc = Exc("ClientError", "404")
          THEN last_op.exc = NoExc
          ELSE last_op.exc = last_op.sdk_exc
    /\ last_op.sdk_exc = NoExc => last_op.exc = NoExc

\* C9 witness: a load_file whose download failed with a ClientError other than
\* 404, which reached the caller
C9_Witness ==
    /\ last_op.op = "load_file"
    /\ last_op.sdk_exc = Exc("ClientError", "403")
    /\ last_op.exc = Exc("ClientError", "403")

\* C10: load_file and fetch_file attempt a download exactly when no file
\* exists at the expanded local_file_path; when a file exists there nothing is
\* downloaded and the local file is left unchanged.
C10_ExistingFile ==
    last_op.op \in {"load_file", "fetch_file"} =>
        LET local == ExpandedPath(last_op.local_file_path)
            existed == last_op.fs_before[local].kind = "file"
        IN  /\ (last_op.sdk_calls = 1) <=> ~existed
            /\ (last_op.sdk_calls = 0) <=> existed
            /\ existed => local_fs = last_op.fs_before

\* C10 witness: fetch_file given a path with ~ whose expansion is an existing
\* file, while the bucket holds the object with other content
C10_Witness ==
    /\ last_op.op = "fetch_file"
    /\ last_op.local_file_path = "~/data/f"
    /\ last_op.fs_before["/home/user/data/f"] = File("local")
    /\ gcs_bucket[last_op.cloud_file_path] = "cloud"
    /\ last_op.sdk_calls = 0
    /\ local_fs["/home/user/data/f"] = File("local")

----------------------------------------------------------------------------
(* Properties of the dataset folder check *)

\* where the folder of a dataset lies on the disk
DataFolderPath(name) ==
    IF name = "SQuAD2" THEN "/home/user/data/SQuAD2" ELSE "/home/user/data/HotpotQA"

\* the paths inside the folder of a dataset
DataFolderContent(name) ==
    IF name = "SQuAD2"
    THEN {"/home/user/data/SQuAD2/train-v2.0.json", "/home/user/data/SQuAD2/dev-v2.0.json"}
    ELSE {"/home/user/data/HotpotQA/HotpotQA.zip"}

FolderCheckRan == last_op.op = "exists_local_data_folder"

\* C11 as stated: for every value of protect_local_folder,
\* exists_local_data_folder returns True if and only if the folder
\* data_folder_name exists under local_base_data_folder_path at the time of
\* the call.
C11_AsStated ==
    FolderCheckRan /\ last_op.returned =>
        (last_op.value <=>
            last_op.fs_before[DataFolderPath(last_op.data_folder_name)].kind # "none")

\* C11 (amended): exists_local_data_folder returns True if and only if
\* something exists at local_base_data_folder_path/data_folder_name at the
\* time of the call and protect_local_folder is True, and then the disk is
\* left unchanged; whenever else it returns, it returns False and the folder
\* is an empty directory afterwards, an existing folder having been deleted
\* with its contents; it raises, leaving the disk unchanged, exactly when the
\* path is missing and the base data folder is too, or when
\* protect_local_folder is False and the path is a file.
C11_FolderCheck ==
    FolderCheckRan =>
        LET path == DataFolderPath(last_op.data_folder_name)
            content == DataFolderContent(last_op.data_folder_name)
            before == last_op.fs_before
            existed == before[path].kind # "none"
            protect == last_op.protect_local_folder
        IN  /\ (last_op.returned /\ last_op.value) <=> (existed /\ protect)
            /\ (last_op.returned /\ last_op.value) => local_fs = before
            /\ (last_op.returned /\ ~last_op.value) =>
                  /\ local_fs[path] = Folder
                  /\ \A p \in content : local_fs[p] = Nothing
                  /\ \A p \in DataPaths \ ({path} \cup content) : local_fs[p] = before[p]
            /\ ~last_op.returned <=> last_op.exc # NoExc
            /\ ~last_op.returned <=>
                  \/ ~existed /\ before["/home/user/data"].kind # "dir"
                  \/ existed /\ ~protect /\ before[path].kind = "file"
            /\ ~last_op.returned => local_fs = before

\* C11 witness: the folder exists with a file in it, protect_local_folder is
\* False: the call returned False and the file is gone
C11_Witness ==
    /\ FolderCheckRan
    /\ last_op.data_folder_name = "SQuAD2"
    /\ ~last_op.protect_local_folder
    /\ last_op.fs_before["/home/user/data/SQuAD2"] = Folder
    /\ last_op.fs_before["/home/user/data/SQuAD2/train-v2.0.json"] = File("local")
    /\ last_op.returned /\ ~last_op.value
    /\ local_fs["/home/user/data/SQuAD2"] = Folder
    /\ local_fs["/home/user/data/SQuAD2/train-v2.0.json"] = Nothing

----------------------------------------------------------------------------
(* Properties of the S3 model savers *)

SaveModelRan == last_op.op = "save_model"

\* the positions of a step in the log of the last save_model call
StepsOf(name) == { i \in 1..Len(last_op.events) : last_op.events[i].step = name }

\* the steps of the last save_model call that raised
RaisedSteps(name) == { i \in StepsOf(name) : last_op.events[i].exc # NoExc }

\* the objects of the model bucket changed by the last save_model call
ChangedObjects == { c \in DOMAIN s3_bucket : s3_bucket[c] # last_op.bucket_before[c] }

\* C12: save_model of the Keras and PyTorch S3 savers saves the model to the
\* local disk first and then uploads that same local file: an upload is only
\* made after the local save returned, a successful call makes exactly one
\* upload, and when the local save (or, for PyTorch, check_model_dict_contents)
\* raises, nothing is uploaded.
C12_SaveThenUpload ==
    SaveModelRan =>
        /\ \A u \in StepsOf("upload") :
              \E l \in StepsOf("local_save") :
                  l < u /\ last_op.events[l].exc = NoExc
        /\ Cardinality(StepsOf("upload")) <= 1
        /\ last_op.returned =>
              /\ Cardinality(StepsOf("upload")) = 1
              /\ RaisedSteps("upload") = {}
              /\ local_fs[last_op.ret[3]] = File(last_op.model.weights)
              /\ \E c \in DOMAIN s3_bucket :
                    /\ s3_bucket[c] = local_fs[last_op.ret[3]].content
                    /\ ChangedObjects \subseteq {c}
        /\ (RaisedSteps("local_save") # {} \/ RaisedSteps("check_model_dict_contents") # {}) =>
              /\ StepsOf("upload") = {}
              /\ ~last_op.returned
              /\ s3_bucket = last_op.bucket_before
        /\ last_op.self.kind = "pytorch" /\ ~last_op.model.is_valid =>
              /\ StepsOf("local_save") = {}
              /\ ~last_op.returned
        /\ ~last_op.returned => s3_bucket = last_op.bucket_before

\* C12 witness: a PyTorch saver checked the model, saved it locally and then
\* uploaded it over an older object with other weights
C12_Witness ==
    /\ SaveModelRan
    /\ last_op.self.kind = "pytorch"
    /\ last_op.returned
    /\ last_op.events = << Step("check_model_dict_contents", NoExc),
                           Step("local_save", NoExc), Step("upload", NoExc) >>
    /\ last_op.model.weights = "weights2"
    /\ \E c \in DOMAIN s3_bucket :
          last_op.bucket_before[c] = "weights1" /\ s3_bucket[c] = "weights2"

\* the folder of the bucket a saver writes into
CloudFolder(checkpoint_model) == IF checkpoint_model THEN "checkpoint_model" ELSE "model"

\* the timestamp a save_model call works with
UsedTimestamp(t) == IF t = None THEN "2019-01-02_12:00:00" ELSE t.value

\* bucket-relative path of the model saved by the last save_model call
ExpectedCloudPath ==
    "QA/FastQA_" \o UsedTimestamp(last_op.experiment_timestamp) \o "/"
        \o CloudFolder(last_op.self.checkpoint_model) \o "/" \o last_op.outcome.model_name

\* C13: save_model returns (model_s3_path, experiment_timestamp,
\* model_local_path) with model_s3_path =
\* bucket_name/project_name/experiment_name_experiment_timestamp/<folder>/model_name,
\* <folder> being 'checkpoint_model' exactly when the saver was built with
\* checkpoint_model=True and 'model' otherwise; the file is uploaded under
\* that path without the bucket prefix, and the returned timestamp is the one
\* passed in whenever that is not None.
C13_ReturnedPaths ==
    SaveModelRan /\ last_op.returned =>
        /\ Len(last_op.ret) = 3
        /\ last_op.ret[1] = "model-result/" \o ExpectedCloudPath
        /\ last_op.experiment_timestamp # None =>
              last_op.ret[2] = last_op.experiment_timestamp.value
        /\ last_op.ret[3] = last_op.outcome.model_local_path
        /\ s3_bucket[ExpectedCloudPath] = last_op.model.weights
        /\ ChangedObjects \subseteq {ExpectedCloudPath}

\* C13 witness: a saver built with checkpoint_model=True saved a model under
\* the timestamp it was given
C13_Witness ==
    /\ SaveModelRan
    /\ last_op.returned
    /\ last_op.self.checkpoint_model
    /\ last_op.experiment_timestamp = Some("2019-01-01_10:00:00")
    /\ last_op.ret[1] =
          "model-result/QA/FastQA_2019-01-01_10:00:00/checkpoint_model/model_FastQA_E1.pth"
    /\ last_op.ret[2] = "2019-01-01_10:00:00"
    /\ last_op.bucket_before[ExpectedCloudPath] = "absent"
    /\ s3_bucket[ExpectedCloudPath] = "weights1"

----------------------------------------------------------------------------
(* Properties of the training history plotter and writer *)

PlotterRan == last_op.op = "plotter.generate_report"

WriterRan == last_op.op = "writer.generate_report"

\* the number of results recorded for a metric
Recorded(m) ==
    IF \E i \in 1..Len(training_history) : training_history[i].metric_name = m
    THEN Len(training_history[
             CHOOSE i \in 1..Len(training_history) :
                 training_history[i].metric_name = m].result_history)
    ELSE 0

\* the names in iteration_level_metric_names of the last report
IterationLevel == { last_op.iteration_level_metric_names[i] :
                      i \in 1..Len(last_op.iteration_level_metric_names) }

\* the metrics of the granularity that the last report was asked for
OfGranularity ==
    IF last_op.granularity = None THEN MetricNames \ IterationLevel
    ELSE MetricNames \cap IterationLevel

\* the metrics that the last plotter call has to plot
ToPlot == { m \in OfGranularity : Recorded(m) > 1 }

\* C14: TrainingHistoryPlotter.generate_report returns the list of saved plot
\* paths: with file_format 'png' exactly one
\* [plots_folder_name/<metric>.png, local path] entry for each metric of the
\* flattened training history that has more than one recorded value and the
\* requested granularity, each such metric plotted once; with 'pdf' exactly
\* one entry, the single combined pdf file.
C14_PlotPaths ==
    PlotterRan /\ last_op.returned =>
        /\ \A m \in ToPlot :
              Cardinality({ i \in 1..Len(last_op.written) :
                              last_op.written[i].metric_name = m }) = 1
        /\ Len(last_op.written) = Cardinality(ToPlot)
        /\ last_op.saved = [i \in 1..Len(last_op.ret) |-> last_op.ret[i][2]]
        /\ last_op.file_format = "png" =>
              /\ Len(last_op.ret) = Cardinality(ToPlot)
              /\ \A m \in ToPlot :
                    Cardinality({ i \in 1..Len(last_op.ret) :
                        last_op.ret[i] = << "plots/" \o m \o ".png",
                                            "/home/user/results/plots/" \o m
                                                \o ".png" >> }) = 1
        /\ last_op.file_format = "pdf" =>
              last_op.ret = << << "plots.pdf", "/home/user/results/plots.pdf" >> >>
        /\ last_op.file_format \in {"png", "pdf"}

\* C14 witness: a png report of the epoch-level metrics where loss has two
\* results, val_acc has one and accumulated_loss, with two, is iteration-level:
\* the list holds the entry of loss only
C14_Witness ==
    /\ PlotterRan
    /\ last_op.returned
    /\ last_op.file_format = "png"
    /\ last_op.granularity = None
    /\ last_op.iteration_level_metric_names = <<"accumulated_loss">>
    /\ Recorded("loss") = 2 /\ Recorded("val_acc") = 1 /\ Recorded("accumulated_loss") = 2
    /\ last_op.ret = << << "plots/loss.png", "/home/user/results/plots/loss.png" >> >>

\* the metrics named in the lines and rows written by the last writer call
WrittenMetrics ==
    UNION { { last_op.written[i].names[j] : j \in 1..Len(last_op.written[i].names) } :
              i \in 1..Len(last_op.written) }

\* the metrics plotted by the last plotter call
PlottedMetrics == { last_op.written[i].metric_name : i \in 1..Len(last_op.written) }

\* the titles of the lines and rows written by the last writer call
WrittenTitles ==
    { last_op.written[i].kind : i \in 1..Len(last_op.written) } \cup
        { last_op.written[i].first :
            i \in { k \in 1..Len(last_op.written) : last_op.written[k].kind = "header" } }

\* C15: epoch-level and iteration-level results are never mixed in one record
\* or plot set: an epoch-level one (iteration_idx / iteration_frequency is
\* None) contains only metrics not in iteration_level_metric_names, an
\* iteration-level one (not None, including index 0) only metrics in
\* iteration_level_metric_names; every metric belongs to exactly one of the
\* two granularities.
C15_Granularity ==
    /\ WriterRan /\ last_op.returned =>
          /\ WrittenMetrics \subseteq OfGranularity
          /\ last_op.granularity = None => WrittenMetrics \cap IterationLevel = {}
          /\ last_op.granularity # None => WrittenMetrics \subseteq IterationLevel
          /\ last_op.granularity = None => "Iteration" \notin WrittenTitles
          /\ last_op.granularity # None => "Epoch" \notin WrittenTitles
          /\ \A m \in OfGranularity : Recorded(m) > 0 => m \in WrittenMetrics
    /\ PlotterRan /\ last_op.returned =>
          /\ PlottedMetrics \subseteq OfGranularity
          /\ last_op.granularity = None => PlottedMetrics \cap IterationLevel = {}
          /\ last_op.granularity # None => PlottedMetrics \subseteq IterationLevel
          /\ \A i \in 1..Len(last_op.written) :
                last_op.written[i].fig.x_label =
                    IF last_op.granularity = None THEN "Epoch" ELSE "Iteration"
    /\ \A m \in MetricNames, n \in IterationLevelMetricNames,
          i \in IterationIndices \ {None} :
            should_write_metric(m, None, n) # should_write_metric(m, i, n)

\* C15 witness: a csv record of iteration index 0 written after an epoch-level
\* record: the columns change to the iteration-level metric, the epoch-level
\* metrics of the history are left out
C15_Witness ==
    /\ WriterRan
    /\ last_op.returned
    /\ last_op.file_format = "csv"
    /\ last_op.granularity = Some(0)
    /\ Recorded("loss") > 0 /\ Recorded("val_acc") > 0 /\ Recorded("accumulated_loss") > 0
    /\ Len(last_op.written) = 3
    /\ last_op.written[1].kind = "NEW_METRICS_DETECTED"
    /\ last_op.written[3].kind = "record"
    /\ last_op.written[3].names = <<"accumulated_loss">>
    /\ metric_name_cols = Some(<<"accumulated_loss">>)

----------------------------------------------------------------------------
(* Properties of the checkpoint callback *)

\* a training run with the checkpoint callback has started
CheckpointRun ==
    /\ pc # "new"
    /\ \E i \in 1..Len(callbacks["old"]) : callbacks["old"][i].kind = "checkpoint"

\* the number of epoch ends the run has gone through
EpochEndsRun ==
    epoch + (IF pc = "interrupted" /\ exec.stage = "epoch_end" THEN 1 ELSE 0)

\* the checkpoints of the run that were saved
SavedCheckpoints == { i \in 1..Len(checkpoints) : checkpoints[i].returned }

\* the cloud folder of the checkpoints of an experiment with a timestamp
CheckpointFolder(timestamp) == "QA/FastQA_" \o timestamp \o "/checkpoint_model"

\* the objects of the model bucket
StoredObjects == { c \in DOMAIN s3_bucket : s3_bucket[c] # "absent" }

\* C16 as stated: ModelCheckpointCallback saves exactly one checkpoint at every
\* epoch end, tagged with the train loop's current epoch and
\* experiment_timestamp, so that all checkpoints of one training run are
\* stored under the same project_name/experiment_name_timestamp/checkpoint_model
\* cloud folder; it saves nothing at any other stage.
C16_AsStated ==
    CheckpointRun =>
        /\ Cardinality(SavedCheckpoints) = EpochEndsRun
        /\ Len(checkpoints) = EpochEndsRun
        /\ \A i \in 1..Len(checkpoints) :
              /\ checkpoints[i].epoch = i - 1
              /\ checkpoints[i].experiment_timestamp = run_timestamp
        /\ \E t \in {GivenTimestamp} \cup ClockTimes :
              \A c \in StoredObjects :
                  \E n \in ModelNames : c = CheckpointFolder(t) \o "/" \o n

\* C16 (amended): ModelCheckpointCallback calls save_model exactly once at
\* every epoch end, with the train loop's current epoch and
\* experiment_timestamp, and at no other stage. A call that returns has stored
\* the checkpoint under project_name/experiment_name_timestamp/checkpoint_model,
\* the timestamp being the train loop's experiment_timestamp or, when that is
\* None, the time of the call, so that the checkpoints of one run share the
\* folder only when the train loop's experiment_timestamp is not None. A call
\* that raises stores nothing and ends the run with that exception.
C16_Checkpoints ==
    CheckpointRun =>
        /\ Len(checkpoints) = EpochEndsRun
        /\ \A i \in 1..Len(checkpoints) :
              /\ checkpoints[i].hook = "on_epoch_end"
              /\ checkpoints[i].epoch = i - 1
              /\ checkpoints[i].experiment_timestamp = run_timestamp
              /\ i < Len(checkpoints) => checkpoints[i].returned
              /\ ~checkpoints[i].returned =>
                    /\ pc = "interrupted"
                    /\ exec.stage = "epoch_end"
                    /\ exec.exc = checkpoints[i].exc.type
              /\ checkpoints[i].returned =>
                    \E t \in {GivenTimestamp} \cup ClockTimes, n \in ModelNames :
                        /\ run_timestamp # None => t = run_timestamp.value
                        /\ run_timestamp = None => t \in ClockTimes
                        /\ checkpoints[i].ret[1] =
                              "model-result/" \o CheckpointFolder(t) \o "/" \o n
                        /\ checkpoints[i].ret[2] = t
                        /\ CheckpointFolder(t) \o "/" \o n \in StoredObjects
        /\ \A c \in StoredObjects :
              \E i \in SavedCheckpoints : checkpoints[i].ret[1] = "model-result/" \o c
        /\ run_timestamp # None =>
              \A c \in StoredObjects :
                  \E n \in ModelNames :
                      c = CheckpointFolder(run_timestamp.value) \o "/" \o n

\* C16 witness: a run with a given timestamp went through two epoch ends and
\* other stages and ended; two checkpoints, of epochs 0 and 1, were saved into
\* the folder of that timestamp
C16_Witness ==
    /\ CheckpointRun
    /\ pc = "done"
    /\ exec.stage = "train_end"
    /\ epoch = 2
    /\ run_timestamp = Some("2019-01-01_10:00:00")
    /\ Len(checkpoints) = 2
    /\ checkpoints[1].returned /\ checkpoints[2].returned
    /\ checkpoints[1].epoch = 0 /\ checkpoints[2].epoch = 1
    /\ checkpoints[2].ret[1] =
          "model-result/QA/FastQA_2019-01-01_10:00:00/checkpoint_model/model_FastQA_E1.pth"
    /\ StoredObjects = {"QA/FastQA_2019-01-01_10:00:00/checkpoint_model/model_FastQA_E1.pth"}

====
